---- MODULE Spec2Model ----
(***************************************************************************)
(* Verification model of the DDC library sources:                          *)
(*   - ddc::PeriodicSampling (include/ddc/periodic_sampling.hpp)           *)
(*   - the non-uniform heat equation example                               *)
(*     (examples/non_uniform_heat_equation.cpp)                            *)
(*                                                                         *)
(* Real numbers are modelled exactly as normalised rationals <<num, den>>. *)
(* std::size_t and int keep a (scaled-down) width: SizeBits stands for the *)
(* 64 bits of std::size_t, IntBits for the 32 bits of int.  The assert()   *)
(* macros of the sources are modelled as active (a failing assert aborts). *)
(*                                                                         *)
(* Spec follows one PeriodicSampling instance from its construction        *)
(* through its queries; SpecHeat follows main() of the heat example.       *)
(***************************************************************************)
EXTENDS Integers, Sequences, FiniteSets, TLC

(* ------------------------------ bounds --------------------------------- *)
MinCoord == 0
MaxCoord == 2
MaxPoints == 4
MaxPeriod == 4
MaxGhost == 2
MaxUid == 8
SizeBits == 16
IntBits == 8

(* --------------------------- integer widths ---------------------------- *)
SizeMod == 2 ^ SizeBits
IntMod == 2 ^ IntBits
IntMin == -(IntMod \div 2)
IntMax == (IntMod \div 2) - 1

\* unsigned std::size_t addition
SizeAdd(x, y) == (x + y) % SizeMod

\* static_cast<int>(std::size_t): modular narrowing
ToInt(x) == LET m == x % IntMod IN IF m > IntMax THEN m - IntMod ELSE m

\* int - int; signed overflow is undefined behaviour: any int may result
IntSub(x, y) == IF x - y >= IntMin /\ x - y <= IntMax THEN {x - y} ELSE IntMin..IntMax

(* ------------------------- exact real arithmetic ----------------------- *)
Abs(x) == IF x < 0 THEN -x ELSE x

RECURSIVE Gcd(_, _)
Gcd(x, y) == IF y = 0 THEN x ELSE Gcd(y, x % y)

\* the rational n/d (d # 0) in lowest terms with positive denominator
Rat(n, d) ==
    LET g == Gcd(Abs(n), Abs(d))
        s == IF d < 0 THEN -1 ELSE 1
    IN <<(s * n) \div g, (s * d) \div g>>

RatOfInt(i) == <<i, 1>>
RatAdd(p, q) == Rat(p[1] * q[2] + q[1] * p[2], p[2] * q[2])
RatSub(p, q) == Rat(p[1] * q[2] - q[1] * p[2], p[2] * q[2])
RatMulInt(p, i) == Rat(p[1] * i, p[2])
RatDivInt(p, i) == Rat(p[1], p[2] * i)
RatLt(p, q) == p[1] * q[2] < q[1] * p[2]
RatLe(p, q) == p[1] * q[2] <= q[1] * p[2]

(* ------------------- DiscreteDomain<DDim> (one dimension) -------------- *)
\* (record fields are written in alphabetical order throughout)
\* DiscreteDomain(front, extents)
DiscreteDomain(front, extents) == [extents |-> extents, front |-> front]

NoDomain == DiscreteDomain(0, 0)

\* the set {front + v : 0 <= v < extents}
Elems(d) == d.front .. (d.front + d.extents - 1)

back(d) == d.front + d.extents - 1

take_first(d, n) == DiscreteDomain(d.front, n)

take_last(d, n) == DiscreteDomain(d.front + d.extents - n, n)

remove(d, n1, n2) == DiscreteDomain(d.front + n1, d.extents - n1 - n2)

(* --------- DiscreteDomain<DDims...> and StridedDiscreteDomain ---------- *)
\* StridedDiscreteDomain(front, extents, strides): one entry per dimension
StridedDiscreteDomain(front, extents, strides) ==
    [extents |-> extents, front |-> front, strides |-> strides]

\* DiscreteDomain<DDims...>(front, extents): every stride is one
DiscreteDomainN(front, extents) ==
    StridedDiscreteDomain(front, extents, [k \in DOMAIN front |-> 1])

NoStridedDomain == StridedDiscreteDomain(<<>>, <<>>, <<>>)

\* the number of elements along dimension k: ceil(extents / stride)
size_per_dim(d, k) == (d.extents[k] + d.strides[k] - 1) \div d.strides[k]

\* size(): the product over the dimensions (1 for no dimension)
dom_size(d) ==
    IF Len(d.front) = 0 THEN 1
    ELSE IF Len(d.front) = 1 THEN size_per_dim(d, 1)
    ELSE size_per_dim(d, 1) * size_per_dim(d, 2)

\* the indices visited along dimension k: front + j * stride
axis(d, k) == {d.front[k] + j * d.strides[k] : j \in 0..(size_per_dim(d, k) - 1)}

\* the elements iteration visits
dom_elems(d) ==
    IF Len(d.front) = 0 THEN {<<>>}
    ELSE IF Len(d.front) = 1 THEN {<<i>> : i \in axis(d, 1)}
    ELSE {<<i, j>> : i \in axis(d, 1), j \in axis(d, 2)}

\* the position of element e along dimension k
rank_in(d, e, k) == (e[k] - d.front[k]) \div d.strides[k]

\* the buffer offset of element e in a chunk allocated over d (layout right)
slot(d, e) ==
    IF Len(d.front) = 0 THEN 0
    ELSE IF Len(d.front) = 1 THEN rank_in(d, e, 1)
    ELSE rank_in(d, e, 1) * size_per_dim(d, 2) + rank_in(d, e, 2)

(* ------------- MCoord, ProductMDomain, Block and BlockSpan ------------- *)
\* MCoord<Tags...>(values...): one value per tag, in the order of the tags
MCoord(tags, values) == [tags |-> tags, values |-> values]

\* the position of a tag in a tag list
tag_rank(tag, tags) == CHOOSE k \in 1..Len(tags) : tags[k] = tag

\* get<Tag>(coord)
get(coord, tag) == coord.values[tag_rank(tag, coord.tags)]

\* the coordinate made of the tagged arguments of a call, in the order given
RECURSIVE MCoordOf(_)
MCoordOf(args) ==
    IF Len(args) = 0 THEN MCoord(<<>>, <<>>)
    ELSE LET rest == MCoordOf(Tail(args))
         IN MCoord(Head(args).tags \o rest.tags, Head(args).values \o rest.values)

\* ProductMDomain<Meshes...>(meshes..., front, extents)
ProductMDomain(tags, front, extents) == [extents |-> extents, front |-> front, tags |-> tags]

NoMDomain == ProductMDomain(<<>>, <<>>, <<>>)

\* select<Meshes...>(domain): the domain restricted to the tags, in their order
select(d, tags) ==
    ProductMDomain(tags,
                   [k \in DOMAIN tags |-> d.front[tag_rank(tags[k], d.tags)]],
                   [k \in DOMAIN tags |-> d.extents[tag_rank(tags[k], d.tags)]])

\* the indices of the k-th tag of a domain
range(d, k) == d.front[k] .. (d.front[k] + d.extents[k] - 1)

\* the coordinates of a domain
MCoords(d) ==
    IF Len(d.tags) = 0 THEN {MCoord(<<>>, <<>>)}
    ELSE IF Len(d.tags) = 1 THEN {MCoord(d.tags, <<i>>) : i \in range(d, 1)}
    ELSE {MCoord(d.tags, <<i, j>>) : i \in range(d, 1), j \in range(d, 2)}

\* whether every tag of the domain has an index of the coordinate inside its range
contains(d, coord) ==
    \A k \in DOMAIN d.tags :
        /\ \E r \in DOMAIN coord.tags : coord.tags[r] = d.tags[k]
        /\ get(coord, d.tags[k]) >= d.front[k]
        /\ get(coord, d.tags[k]) < d.front[k] + d.extents[k]

RECURSIVE product_from(_, _)
\* extents[k] * ... * extents[Len(extents)]
product_from(extents, k) ==
    IF k > Len(extents) THEN 1 ELSE extents[k] * product_from(extents, k + 1)

\* layout_right: the last tag varies fastest
layout_right(extents) == [k \in DOMAIN extents |-> product_from(extents, k + 1)]

\* BlockSpan: a view of buffer `buffer` over `domain` with one stride per tag;
\* `offset` is the buffer offset of the element at the front of the domain
BlockSpan(buffer, d, strides, offset) ==
    [buffer |-> buffer, domain |-> d, offset |-> offset, strides |-> strides]

NoSpan == BlockSpan(0, NoMDomain, <<>>, 0)

\* Block(domain): the owning block, layout_right over the tags of its domain
Block(buffer, d) == BlockSpan(buffer, d, layout_right(d.extents), 0)

RECURSIVE offset_from(_, _, _)
\* the buffer offset of the element the coordinate designates: the index of
\* each tag of the span is looked up by tag in the coordinate
offset_from(span, coord, k) ==
    IF k > Len(span.domain.tags) THEN span.offset
    ELSE (get(coord, span.domain.tags[k]) - span.domain.front[k]) * span.strides[k]
         + offset_from(span, coord, k + 1)

offset_of(span, coord) == offset_from(span, coord, 1)

\* the tag list without one tag
without(seq, r) == [k \in 1..(Len(seq) - 1) |-> IF k < r THEN seq[k] ELSE seq[k + 1]]

\* span[MCoord<Tag>(i)]: the tag is dropped, the other tags keep their range
slice_at(span, coord) ==
    LET r == tag_rank(coord.tags[1], span.domain.tags)
        d == span.domain
    IN BlockSpan(span.buffer,
                 ProductMDomain(without(d.tags, r), without(d.front, r), without(d.extents, r)),
                 without(span.strides, r),
                 span.offset + (coord.values[1] - d.front[r]) * span.strides[r])

\* span[ProductMDomain<Tag>(front, extents)]: every tag is kept, the range of
\* the tag becomes the one of the subdomain
slice_by(span, sub) ==
    LET r == tag_rank(sub.tags[1], span.domain.tags)
        d == span.domain
    IN BlockSpan(span.buffer,
                 ProductMDomain(d.tags,
                                [d.front EXCEPT ![r] = sub.front[1]],
                                [d.extents EXCEPT ![r] = sub.extents[1]]),
                 span.strides,
                 span.offset + (sub.front[1] - d.front[r]) * span.strides[r])

\* deepcopy(dst, src): the new content of the buffer of dst
deepcopy(data, dst, src) ==
    [o \in DOMAIN data[dst.buffer] |->
        IF \E c \in MCoords(dst.domain) : offset_of(dst, c) = o
        THEN LET c == CHOOSE c \in MCoords(dst.domain) : offset_of(dst, c) = o
             IN data[src.buffer][offset_of(src, c)]
        ELSE data[dst.buffer][o]]

(* ---------------------- discrete-space registry ------------------------ *)
\* the discrete dimensions of the heat equation example
DDims == {"DDimX", "DDimY", "DDimT"}

\* the entry of a tag that has no sampling
NoSampling == "none"

\* an operation on the registry, its outcome, the value it returned and the
\* registry it found
RegOp(op, tag, outcome, value, before) ==
    [before |-> before, op |-> op, outcome |-> outcome, tag |-> tag, value |-> value]

\* variant: init<D> replaces the sampling already registered
registry_init_overwrite(reg, tag, sampling) == [reg EXCEPT ![tag] = sampling]

\* init<D>(sampling): the registry after the call (unchanged when D is present)
registry_init(reg, tag, sampling) ==
    IF reg[tag] = NoSampling THEN [reg EXCEPT ![tag] = sampling] ELSE reg

\* the outcome of init<D>(sampling)
registry_init_outcome(reg, tag) ==
    IF reg[tag] = NoSampling THEN "ok" ELSE "AlreadyInitialised"

\* the outcome of get<D>()
registry_get_outcome(reg, tag) ==
    IF reg[tag] = NoSampling THEN "NotInitialised" ELSE "ok"

\* variant: the teardown keeps the entries
registry_teardown_keep(reg) == reg

\* the teardown clears all entries
registry_teardown(reg) == [t \in DOMAIN reg |-> NoSampling]

\* remove_first(n), remove_last(n)
remove_first(d, n) == remove(d, n, 0)

remove_last(d, n) == remove(d, 0, n)

\* remove(n_front, n_back) fails when the extent would become negative
remove_outcome(d, n1, n2) == IF n1 + n2 > d.extents THEN "EmptyResult" ELSE "ok"

\* a call on a domain: its arguments, the receiver it found, its outcome and
\* the domains it returned
DomOp(op, n1, n2, before, outcome, result) ==
    [before |-> before, n1 |-> n1, n2 |-> n2, op |-> op, outcome |-> outcome,
     result |-> result]

(* ------------------- PeriodicSampling<CDim>::Impl ---------------------- *)
Impl(origin, step, n_period) == [n_period |-> n_period, origin |-> origin, step |-> step]

NoImpl == Impl(<<0, 1>>, <<0, 1>>, 0)

\* Impl() noexcept : m_origin(0), m_step(1), m_n_period(2)
Impl_default == Impl(RatOfInt(0), RatOfInt(1), 2)

\* explicit Impl(Impl<DDim, OriginMemorySpace> const& impl)
Impl_copy(impl) == Impl(impl.origin, impl.step, impl.n_period)

\* variant: the step assertion accepts a zero or negative step
Impl_asserts_nostep(step, n_period) == n_period > 0

\* the asserts of Impl(origin, step, n_period)
Impl_asserts(step, n_period) == RatLt(RatOfInt(0), step) /\ n_period > 0

\* Impl::front()
Impl_front == 0

\* variant: the half period rounded up
Impl_offsets_halfup(impl, uid) ==
    LET half == (impl.n_period + 1) \div 2
    IN IntSub(ToInt(SizeAdd(uid, half) % impl.n_period), ToInt(half))

\* variant: the wrap-around forgotten
Impl_offsets_nomod(impl, uid) ==
    LET half == impl.n_period \div 2
    IN IntSub(ToInt(SizeAdd(uid, half)), ToInt(half))

\* variant: the interval not centred on the origin
Impl_offsets_uncentred(impl, uid) ==
    LET half == impl.n_period \div 2
    IN {ToInt(SizeAdd(uid, half) % impl.n_period)}

\* the integer offsets coordinate() can compute for index uid:
\* static_cast<int>((uid + m_n_period / 2) % m_n_period) - static_cast<int>(m_n_period / 2)
Impl_offsets(impl, uid) ==
    LET half == impl.n_period \div 2
    IN IntSub(ToInt(SizeAdd(uid, half) % impl.n_period), ToInt(half))

\* Impl::coordinate(icoord): the set of values the call can return
Impl_coordinate(impl, uid) ==
    {RatAdd(impl.origin, RatMulInt(impl.step, off)) : off \in Impl_offsets(impl, uid)}

(* ------------------------------- state --------------------------------- *)
VARIABLES
    status,         \* "none" | "ok" | "aborted" (an assert failed)
    call,           \* the last construction call and its arguments
    disc,           \* the sampling instance (host)
    disc_copy,      \* its copy constructed for another memory space
    main_domain, ghosted_domain, pre_ghost, post_ghost,
    query           \* the last call of coordinate / distance_at_left / distance_at_right

pvars == <<status, call, disc, disc_copy, main_domain, ghosted_domain, pre_ghost,
           post_ghost, query>>

\* the state of the heat equation example
VARIABLES
    pc,                     \* position of main()
    x_domain_vect, x_pre_ghost_vect, x_post_ghost_vect,
    x_points,               \* the point table registered for DDimX
    x_domain, ghosted_x_domain, x_pre_ghost, x_post_ghost, x_pre_mirror, x_post_mirror,
    y_domain_vect, y_pre_ghost_vect, y_post_ghost_vect,
    y_points,               \* the point table registered for DDimY
    y_domain, ghosted_y_domain, y_pre_ghost, y_post_ghost, y_pre_mirror, y_post_mirror,
    nb_time_steps,
    buffers,                \* the storage of the two device chunks
    ghosted_last_temp,      \* the buffer each chunk variable owns
    ghosted_next_temp,
    ghosted_temp,           \* the host chunk
    iter, last_output_iter,
    displayed               \* the labels of the displays made, in order

xvars == <<x_domain_vect, x_pre_ghost_vect, x_post_ghost_vect, x_points,
           x_domain, ghosted_x_domain, x_pre_ghost, x_post_ghost, x_pre_mirror, x_post_mirror>>
yvars == <<y_domain_vect, y_pre_ghost_vect, y_post_ghost_vect, y_points,
           y_domain, ghosted_y_domain, y_pre_ghost, y_post_ghost, y_pre_mirror, y_post_mirror>>
tvars == <<buffers, ghosted_last_temp, ghosted_next_temp>>
ovars == <<ghosted_temp, last_output_iter, displayed>>
hvars == <<pc, xvars, yvars, nb_time_steps, tvars, ovars, iter>>

\* the state of the parallel_for_each tests
VARIABLES
    fe_test,                \* the test that runs
    fe_pc,                  \* "start" | "running" | "joined" | "done"
    fe_dom,                 \* dom: the domain of the test
    storage,                \* ptr[0 .. dom.size()): the buffer behind view
    pending,                \* kernel invocations not yet started
    loaded,                 \* invocations that read view(i) and have not yet stored
    sum                     \* the left-hand side of EXPECT_EQ

fvars == <<fe_test, fe_pc, fe_dom, storage, pending, loaded, sum>>

\* the state of a transform_reduce / parallel_transform_reduce call
VARIABLES
    tr_pc,                  \* "start" | "running" | "done"
    tr_call,                \* the call site: its neutral value and its reducer
    tr_vals,                \* the value of the kernel at each element of the domain
    tr_todo,                \* elements not yet transformed
    tr_partials,            \* the partial result of each part of the work
    tr_result               \* the value returned

rvars == <<tr_pc, tr_call, tr_vals, tr_todo, tr_partials, tr_result>>

\* the state of the Block tests
VARIABLES
    bk_test,                \* the test that runs
    bk_pc,                  \* position in the test body
    bk_dom,                 \* dom: the domain of the fixture
    bk_data,                \* the buffer each Block owns
    block,                  \* DBlockSpXVx block(dom) / DBlockX block(dom)
    block2,                 \* block2 / block_reordered
    block_x, block_v,       \* the slices by one element
    subblock,               \* the slice by a subdomain
    slice_val,              \* the indices the two element slices are taken at
    sub_req,                \* the front and the extent asked of the subdomain slice
    bk_ok                   \* whether the assertions made so far held

bvars == <<bk_test, bk_pc, bk_dom, bk_data, block, block2, block_x, block_v, subblock,
           slice_val, sub_req, bk_ok>>

\* the discrete-space registry of the process
VARIABLES
    guards,                 \* the number of scope guards held
    released,               \* whether the outer guard was released (teardown)
    registry,               \* the sampling registered for each tag, or NoSampling
    reg_last,               \* the last operation, its outcome and the registry before it
    inits                   \* per tag, the number of init<D> calls that succeeded

gvars == <<guards, released, registry, reg_last, inits>>

\* a discrete domain and the last operation called on it
VARIABLES
    dd_receiver,            \* the domain the operations are called on
    dd_last                 \* the last call, the receiver it found and what it returned

dvars == <<dd_receiver, dd_last>>

\* the projection of elements in the spline test
VARIABLES
    pj_test, pj_dom, pj_last

jvars == <<pj_test, pj_dom, pj_last>>

\* two tagged tuples and the last operation between them
VARIABLES
    tt_src, tt_dst, tt_op

tvars_tt == <<tt_src, tt_dst, tt_op>>

\* the time loop with the kernel of the numerical scheme run statement by statement
VARIABLES
    sk_pc, sk_iter, sk_bufs, sk_last, sk_next, sk_phase

svars == <<sk_pc, sk_iter, sk_bufs, sk_last, sk_next, sk_phase>>

\* the state of the library tests
lvars == <<fvars, rvars, bvars, gvars, dvars, jvars, tvars_tt, svars>>

vars == <<pvars, hvars, lvars>>

Call(op, a, b, n, n_period, gb, ga) ==
    [a |-> a, b |-> b, ga |-> ga, gb |-> gb, n |-> n, n_period |-> n_period, op |-> op]

NoQuery == [arg |-> 0, dom |-> NoDomain, fn |-> "none", res |-> <<0, 1>>]

Coords == MinCoord..MaxCoord
Points == 0..MaxPoints
Periods == 0..MaxPeriod
Ghosts == 0..MaxGhost
Uids == 0..MaxUid

\* what a construction does to the state; a behaviour follows one instance
Constructed(c, ok, impl, main, ghosted, pre, post) ==
    /\ status = "none"
    /\ UNCHANGED <<hvars, lvars>>
    /\ call' = c
    /\ status' = IF ok THEN "ok" ELSE "aborted"
    /\ disc' = IF ok THEN impl ELSE NoImpl
    /\ disc_copy' = NoImpl
    /\ main_domain' = IF ok THEN main ELSE NoDomain
    /\ ghosted_domain' = IF ok THEN ghosted ELSE NoDomain
    /\ pre_ghost' = IF ok THEN pre ELSE NoDomain
    /\ post_ghost' = IF ok THEN post ELSE NoDomain
    /\ query' = NoQuery

\* Impl()
DefaultConstruct ==
    Constructed(Call("Impl()", 0, 0, 0, 2, 0, 0), TRUE, Impl_default,
                NoDomain, NoDomain, NoDomain, NoDomain)

\* Impl(origin, step, n_period)
Construct(origin, step, n_period) ==
    Constructed(Call("Impl", origin, step, 0, n_period, 0, 0),
                Impl_asserts(RatOfInt(step), n_period),
                Impl(RatOfInt(origin), RatOfInt(step), n_period),
                NoDomain, NoDomain, NoDomain, NoDomain)

\* Impl(Impl<DDim, OriginMemorySpace> const&): the copy for another memory
\* space, made once, before the instance is queried
CopyConstruct ==
    /\ status = "ok"
    /\ disc_copy = NoImpl
    /\ query = NoQuery
    /\ UNCHANGED <<hvars, lvars>>
    /\ disc_copy' = Impl_copy(disc)
    /\ UNCHANGED <<status, call, disc, main_domain, ghosted_domain, pre_ghost,
                   post_ghost, query>>

\* the asserts of init and init_ghosted
init_asserts(a, b, n, n_period) == a < b /\ n > 1 /\ n_period > 1

\* variant: the segment divided into n steps
init_step_n(a, b, n) == RatDivInt(RatOfInt(b - a), n)

\* (b - a) / (n - 1)
init_step(a, b, n) == RatDivInt(RatOfInt(b - a), n - 1)

\* PeriodicSampling::init(a, b, n, n_period)
init(a, b, n, n_period) ==
    LET ok == init_asserts(a, b, n, n_period)
        step == IF ok THEN init_step(a, b, n) ELSE RatOfInt(0)
    IN Constructed(Call("init", a, b, n, n_period, 0, 0),
                   ok /\ Impl_asserts(step, n_period),
                   Impl(RatOfInt(a), step, n_period),
                   DiscreteDomain(Impl_front, n), NoDomain, NoDomain, NoDomain)

\* the values init_ghosted(a, b, n, n_period, n_ghosts_before, n_ghosts_after) builds
init_ghosted_disc(a, b, n, n_period, gb) ==
    LET discretization_step == init_step(a, b, n)
    IN Impl(RatSub(RatOfInt(a), RatMulInt(discretization_step, gb)),
            discretization_step, n_period)

init_ghosted_domain(n, gb, ga) == DiscreteDomain(Impl_front, n + gb + ga)

init_ghosted_pre_ghost(n, gb, ga) == take_first(init_ghosted_domain(n, gb, ga), gb)

\* variant: the ghost counts exchanged
init_ghosted_main_domain_swapped(n, gb, ga) == remove(init_ghosted_domain(n, gb, ga), ga, gb)

init_ghosted_main_domain(n, gb, ga) == remove(init_ghosted_domain(n, gb, ga), gb, ga)

init_ghosted_post_ghost(n, gb, ga) == take_last(init_ghosted_domain(n, gb, ga), ga)

\* PeriodicSampling::init_ghosted(a, b, n, n_period, n_ghosts_before, n_ghosts_after)
init_ghosted_as(op, a, b, n, n_period, gb, ga) ==
    LET ok == init_asserts(a, b, n, n_period)
        impl == IF ok THEN init_ghosted_disc(a, b, n, n_period, gb) ELSE NoImpl
    IN Constructed(Call(op, a, b, n, n_period, gb, ga),
                   ok /\ Impl_asserts(impl.step, n_period),
                   impl,
                   init_ghosted_main_domain(n, gb, ga),
                   init_ghosted_domain(n, gb, ga),
                   init_ghosted_pre_ghost(n, gb, ga),
                   init_ghosted_post_ghost(n, gb, ga))

init_ghosted(a, b, n, n_period, gb, ga) ==
    init_ghosted_as("init_ghosted", a, b, n, n_period, gb, ga)

\* PeriodicSampling::init_ghosted(a, b, n, n_period, n_ghosts)
init_ghosted_n(a, b, n, n_period, n_ghosts) ==
    init_ghosted_as("init_ghosted_n", a, b, n, n_period, n_ghosts, n_ghosts)

\* step<DDim>()
step == disc.step

\* a query records its answer
Answer(fn, arg, res) ==
    /\ status = "ok"
    /\ UNCHANGED <<hvars, lvars>>
    /\ query' = [arg |-> arg, dom |-> NoDomain, fn |-> fn, res |-> res]
    /\ UNCHANGED <<status, call, disc, disc_copy, main_domain, ghosted_domain,
                   pre_ghost, post_ghost>>

\* coordinate(DiscreteElement<DDim> const& c)
coordinate(c) ==
    /\ status = "ok"
    /\ \E res \in Impl_coordinate(disc, c) : Answer("coordinate", c, res)

\* variant: the distance measured between the coordinates of e - 1 and e
distance_at_left_measured(e) ==
    /\ status = "ok"
    /\ \E x \in Impl_coordinate(disc, e), y \in Impl_coordinate(disc, SizeAdd(e, SizeMod - 1)) :
          Answer("distance_at_left", e, RatSub(x, y))

\* distance_at_left(DiscreteElement<DDim>)
distance_at_left(e) == Answer("distance_at_left", e, step)

\* distance_at_right(DiscreteElement<DDim>)
distance_at_right(e) == Answer("distance_at_right", e, step)

\* the non-empty domains a query can be given: those the construction returned
QueryDomains == {d \in {main_domain, ghosted_domain, pre_ghost, post_ghost} : d.extents > 0}

\* a query about a domain records the domain and its answer
AnswerDomain(fn, d, res) ==
    /\ status = "ok"
    /\ UNCHANGED <<hvars, lvars>>
    /\ query' = [arg |-> 0, dom |-> d, fn |-> fn, res |-> res]
    /\ UNCHANGED <<status, call, disc, disc_copy, main_domain, ghosted_domain,
                   pre_ghost, post_ghost>>

\* rmin(DiscreteDomain<DDim> const& d): coordinate(d.front())
rmin(d) ==
    /\ status = "ok"
    /\ \E res \in Impl_coordinate(disc, d.front) : AnswerDomain("rmin", d, res)

\* rmax(DiscreteDomain<DDim> const& d): coordinate(d.back())
rmax(d) ==
    /\ status = "ok"
    /\ \E res \in Impl_coordinate(disc, back(d)) : AnswerDomain("rmax", d, res)

\* rlength(DiscreteDomain<DDim> const& d): rmax(d) - rmin(d)
rlength(d) ==
    /\ status = "ok"
    /\ \E hi \in Impl_coordinate(disc, back(d)), lo \in Impl_coordinate(disc, d.front) :
          AnswerDomain("rlength", d, RatSub(hi, lo))

(* =============== examples/non_uniform_heat_equation.cpp ================ *)
(* Coordinates along X (along Y) are integers in units of dx/20 (dy/20),   *)
(* where dx = (x_end - x_start)/(nb_x_points - 1) is the unperturbed mesh  *)
(* step; temperatures are integers in units of 0.001.  The double          *)
(* arithmetic of the stencil is modelled in this fixed-point form.         *)

\* scaled-down problem sizes
nb_x_points == 3
nb_y_points == 3
MaxTimeSteps == 3
t_output_period == 2

\* the literal ghost width passed to periodic_extrapolation_left/right
ghost_width == 1

\* kx * step<DDimT>() and ky * step<DDimT>() in model units
kx_dt == 40
ky_dt == 8

\* marker of a storage cell that was never written
Undef == -999999

\* the perturbations dis(gen) * dx a run can draw, in model units
Perturbations == {-1, 0, 1}

\* generate_random_vector(n, lower_bound, higher_bound) for the draws pert
generate_random_vector(n, pert) ==
    [i \in 1..n |-> (-10 * (n - 1)) + 20 * (i - 1) + (IF i = 1 \/ i = n THEN 0 ELSE pert[i])]

\* std::is_sorted
is_sorted(points) == \A i \in 1..(Len(points) - 1) : points[i] <= points[i + 1]

\* points.back() - points.front()
Period(points) == points[Len(points)] - points[1]

\* periodic_extrapolation_left(gw, points)
periodic_extrapolation_left(gw, points) ==
    [k \in 1..gw |-> points[Len(points) - 1 - gw + k] - Period(points)]

\* periodic_extrapolation_right(gw, points)
periodic_extrapolation_right(gw, points) ==
    [k \in 1..gw |-> points[1 + k] + Period(points)]

\* NonUniformPointSampling::init_ghosted(domain_vect, pre_ghost_vect, post_ghost_vect):
\* the point table and the four domains
nu_points(domain_vect, pre_ghost_vect, post_ghost_vect) ==
    pre_ghost_vect \o domain_vect \o post_ghost_vect

nu_ghosted_domain(n, gb, ga) == DiscreteDomain(0, n + gb + ga)

nu_pre_ghost(n, gb, ga) == take_first(nu_ghosted_domain(n, gb, ga), gb)

nu_main_domain(n, gb, ga) == remove(nu_ghosted_domain(n, gb, ga), gb, ga)

nu_post_ghost(n, gb, ga) == take_last(nu_ghosted_domain(n, gb, ga), ga)

\* NonUniformPointSampling: coordinate, distance_at_left, distance_at_right
nu_coordinate(points, i) == points[i + 1]

nu_distance_at_left(points, i) == points[i + 1] - points[i]

nu_distance_at_right(points, i) == points[i + 2] - points[i + 1]

\* variant: the mirror taken next to the ghost cells
pre_mirror_adjacent(pre, main) == DiscreteDomain(pre.front + pre.extents, pre.extents)

\* x_pre_mirror(x_pre_ghost.front() + x_domain.extents(), x_pre_ghost.extents())
pre_mirror(pre, main) == DiscreteDomain(pre.front + main.extents, pre.extents)

\* x_post_mirror(x_post_ghost.front() - x_domain.extents(), x_post_ghost.extents())
post_mirror(post, main) == DiscreteDomain(post.front - main.extents, post.extents)

\* the state before any construction and at the start of main()
Init ==
    /\ status = "none"
    /\ call = Call("none", 0, 0, 0, 0, 0, 0)
    /\ disc = NoImpl
    /\ disc_copy = NoImpl
    /\ main_domain = NoDomain
    /\ ghosted_domain = NoDomain
    /\ pre_ghost = NoDomain
    /\ post_ghost = NoDomain
    /\ query = NoQuery
    /\ pc = "start"
    /\ x_domain_vect = <<>> /\ x_pre_ghost_vect = <<>> /\ x_post_ghost_vect = <<>>
    /\ x_points = <<>>
    /\ x_domain = NoDomain /\ ghosted_x_domain = NoDomain
    /\ x_pre_ghost = NoDomain /\ x_post_ghost = NoDomain
    /\ x_pre_mirror = NoDomain /\ x_post_mirror = NoDomain
    /\ y_domain_vect = <<>> /\ y_pre_ghost_vect = <<>> /\ y_post_ghost_vect = <<>>
    /\ y_points = <<>>
    /\ y_domain = NoDomain /\ ghosted_y_domain = NoDomain
    /\ y_pre_ghost = NoDomain /\ y_post_ghost = NoDomain
    /\ y_pre_mirror = NoDomain /\ y_post_mirror = NoDomain
    /\ nb_time_steps = 0
    /\ buffers = <<>>
    /\ ghosted_last_temp = 1
    /\ ghosted_next_temp = 2
    /\ ghosted_temp = <<>>
    /\ iter = 0
    /\ last_output_iter = 0
    /\ displayed = <<>>
    /\ fe_test = "none"
    /\ fe_pc = "start"
    /\ fe_dom = NoStridedDomain
    /\ storage = <<>>
    /\ pending = {}
    /\ loaded = {}
    /\ sum = 0
    /\ tr_pc = "start"
    /\ tr_call = [neutral |-> 0, reducer |-> "none", site |-> "none"]
    /\ tr_vals = <<>>
    /\ tr_todo = {}
    /\ tr_partials = <<>>
    /\ tr_result = 0
    /\ bk_test = "none"
    /\ bk_pc = "start"
    /\ bk_dom = NoMDomain
    /\ bk_data = <<>>
    /\ block = NoSpan
    /\ block2 = NoSpan
    /\ block_x = NoSpan
    /\ block_v = NoSpan
    /\ subblock = NoSpan
    /\ slice_val = <<0, 0>>
    /\ sub_req = <<0, 0>>
    /\ bk_ok = TRUE
    /\ guards = 0
    /\ released = FALSE
    /\ registry = [t \in DDims |-> NoSampling]
    /\ reg_last = RegOp("none", "none", "none", NoSampling, [t \in DDims |-> NoSampling])
    /\ inits = [t \in DDims |-> 0]
    /\ dd_receiver = NoDomain
    /\ dd_last = DomOp("none", 0, 0, NoDomain, "ok", <<>>)
    /\ pj_test = "none"
    /\ pj_dom = NoMDomain
    /\ pj_last = [e |-> MCoord(<<>>, <<>>), proj |-> MCoord(<<>>, <<>>), value |-> 0]
    /\ tt_src = [m_values |-> <<>>, tags |-> <<>>]
    /\ tt_dst = [m_values |-> <<>>, tags |-> <<>>]
    /\ tt_op = "none"
    /\ sk_pc = "start"
    /\ sk_iter = 0
    /\ sk_bufs = <<>>
    /\ sk_last = 1
    /\ sk_next = 2
    /\ sk_phase = <<>>

\* the elements of DiscreteDomain<DDimX, DDimY>(dx, dy)
Elems2(dx, dy) == Elems(dx) \X Elems(dy)

\* x_domain_vect = generate_random_vector(nb_x_points, x_start, x_end);
\* x_pre_ghost_vect, x_post_ghost_vect = periodic_extrapolation_left/right(1, x_domain_vect)
GhostPointsX ==
    /\ pc = "start"
    /\ UNCHANGED <<pvars, lvars>>
    /\ \E pert \in [1..nb_x_points -> Perturbations] :
          LET points == generate_random_vector(nb_x_points, pert)
          IN /\ is_sorted(points)
             /\ Len(points) > ghost_width
             /\ x_domain_vect' = points
             /\ x_pre_ghost_vect' = periodic_extrapolation_left(ghost_width, points)
             /\ x_post_ghost_vect' = periodic_extrapolation_right(ghost_width, points)
    /\ pc' = "build_x"
    /\ UNCHANGED <<x_points, x_domain, ghosted_x_domain, x_pre_ghost, x_post_ghost,
                   x_pre_mirror, x_post_mirror, yvars, nb_time_steps, tvars, ovars, iter>>

\* init_discrete_space<DDimX>(DDimX::init_ghosted<DDimX>(...)); x_post_mirror; x_pre_mirror
BuildDomainsX ==
    /\ pc = "build_x"
    /\ UNCHANGED <<pvars, lvars>>
    /\ LET n == Len(x_domain_vect)
           gb == Len(x_pre_ghost_vect)
           ga == Len(x_post_ghost_vect)
       IN /\ x_points' = nu_points(x_domain_vect, x_pre_ghost_vect, x_post_ghost_vect)
          /\ x_domain' = nu_main_domain(n, gb, ga)
          /\ ghosted_x_domain' = nu_ghosted_domain(n, gb, ga)
          /\ x_pre_ghost' = nu_pre_ghost(n, gb, ga)
          /\ x_post_ghost' = nu_post_ghost(n, gb, ga)
          /\ x_post_mirror' = post_mirror(nu_post_ghost(n, gb, ga), nu_main_domain(n, gb, ga))
          /\ x_pre_mirror' = pre_mirror(nu_pre_ghost(n, gb, ga), nu_main_domain(n, gb, ga))
    /\ pc' = "ghost_y"
    /\ UNCHANGED <<x_domain_vect, x_pre_ghost_vect, x_post_ghost_vect, yvars,
                   nb_time_steps, tvars, ovars, iter>>

\* y_domain_vect, y_pre_ghost_vect, y_post_ghost_vect
GhostPointsY ==
    /\ pc = "ghost_y"
    /\ UNCHANGED <<pvars, lvars>>
    /\ \E pert \in [1..nb_y_points -> Perturbations] :
          LET points == generate_random_vector(nb_y_points, pert)
          IN /\ is_sorted(points)
             /\ Len(points) > ghost_width
             /\ y_domain_vect' = points
             /\ y_pre_ghost_vect' = periodic_extrapolation_left(ghost_width, points)
             /\ y_post_ghost_vect' = periodic_extrapolation_right(ghost_width, points)
    /\ pc' = "build_y"
    /\ UNCHANGED <<y_points, y_domain, ghosted_y_domain, y_pre_ghost, y_post_ghost,
                   y_pre_mirror, y_post_mirror, xvars, nb_time_steps, tvars, ovars, iter>>

\* init_discrete_space<DDimY>(DDimY::init_ghosted<DDimY>(...)); y_post_mirror; y_pre_mirror
BuildDomainsY ==
    /\ pc = "build_y"
    /\ UNCHANGED <<pvars, lvars>>
    /\ LET n == Len(y_domain_vect)
           gb == Len(y_pre_ghost_vect)
           ga == Len(y_post_ghost_vect)
       IN /\ y_points' = nu_points(y_domain_vect, y_pre_ghost_vect, y_post_ghost_vect)
          /\ y_domain' = nu_main_domain(n, gb, ga)
          /\ ghosted_y_domain' = nu_ghosted_domain(n, gb, ga)
          /\ y_pre_ghost' = nu_pre_ghost(n, gb, ga)
          /\ y_post_ghost' = nu_post_ghost(n, gb, ga)
          /\ y_post_mirror' = post_mirror(nu_post_ghost(n, gb, ga), nu_main_domain(n, gb, ga))
          /\ y_pre_mirror' = pre_mirror(nu_pre_ghost(n, gb, ga), nu_main_domain(n, gb, ga))
    /\ pc' = "time_domain"
    /\ UNCHANGED <<y_domain_vect, y_pre_ghost_vect, y_post_ghost_vect, xvars,
                   nb_time_steps, tvars, ovars, iter>>

\* the CFL condition and the time domain: nb_time_steps is derived from the
\* mesh distances in double arithmetic; any count up to MaxTimeSteps can occur
TimeDomain ==
    /\ pc = "time_domain"
    /\ UNCHANGED <<pvars, lvars>>
    /\ \E n \in 1..MaxTimeSteps : nb_time_steps' = n
    /\ pc' = "allocate"
    /\ UNCHANGED <<xvars, yvars, tvars, ovars, iter>>

\* time_domain = (0, nb_time_steps + 1)
time_domain == DiscreteDomain(0, nb_time_steps + 1)

\* ddc::Chunk ghosted_last_temp(...), ghosted_next_temp(...): uninitialised storage
Allocate ==
    /\ pc = "allocate"
    /\ UNCHANGED <<pvars, lvars>>
    /\ buffers' = [b \in {ghosted_last_temp, ghosted_next_temp} |->
                      [e \in Elems2(ghosted_x_domain, ghosted_y_domain) |-> Undef]]
    /\ pc' = "fill"
    /\ UNCHANGED <<xvars, yvars, nb_time_steps, ghosted_last_temp, ghosted_next_temp,
                   ovars, iter>>

\* 9.999 * ((x * x + y * y) < 0.25)
initial_temp(x, y) ==
    LET sx == nb_x_points - 1
        sy == nb_y_points - 1
    IN IF x * x * sy * sy + y * y * sx * sx < 25 * sx * sx * sy * sy THEN 9999 ELSE 0

\* parallel_for_each over (x_domain, y_domain) filling ghosted_initial_temp
FillInitial ==
    /\ pc = "fill"
    /\ UNCHANGED <<pvars, lvars>>
    /\ buffers' = [buffers EXCEPT ![ghosted_last_temp] =
          [e \in DOMAIN @ |->
              IF e \in Elems2(x_domain, y_domain)
              THEN initial_temp(nu_coordinate(x_points, e[1]), nu_coordinate(y_points, e[2]))
              ELSE @[e]]]
    /\ pc' = "initial_display"
    /\ UNCHANGED <<xvars, yvars, nb_time_steps, ghosted_last_temp, ghosted_next_temp,
                   ovars, iter>>

\* display(time, temp): the label and the values shown
display(label, temp) ==
    [data |-> [e \in Elems2(x_domain, y_domain) |-> temp[e]], label |-> label]

\* create_mirror, parallel_deepcopy(ghosted_temp, ghosted_last_temp), the
\* initial display and last_output_iter = time_domain.front()
InitialDisplay ==
    /\ pc = "initial_display"
    /\ UNCHANGED <<pvars, lvars>>
    /\ ghosted_temp' = buffers[ghosted_last_temp]
    /\ displayed' = Append(displayed, display(time_domain.front, buffers[ghosted_last_temp]))
    /\ last_output_iter' = time_domain.front
    /\ iter' = time_domain.front
    /\ pc' = "loop"
    /\ UNCHANGED <<xvars, yvars, nb_time_steps, tvars>>

\* for (iter : time_domain.remove_first(1))
TimeIteration ==
    /\ pc = "loop"
    /\ UNCHANGED <<pvars, lvars>>
    /\ IF iter < back(time_domain)
       THEN iter' = iter + 1 /\ pc' = "bc_x_pre"
       ELSE iter' = iter /\ pc' = "final_output"
    /\ UNCHANGED <<xvars, yvars, nb_time_steps, tvars, ovars>>

\* parallel_deepcopy(chunk[dst][ydom], chunk[src][ydom]) for X elements dst, src
deepcopy_x(buf, dst, src, ydom) ==
    [e \in DOMAIN buf |->
        IF e[1] = dst /\ e[2] \in Elems(ydom) THEN buf[<<src, e[2]>>] ELSE buf[e]]

\* parallel_deepcopy(chunk[xdom][dst], chunk[xdom][src]) for Y elements dst, src
deepcopy_y(buf, dst, src, xdom) ==
    [e \in DOMAIN buf |->
        IF e[2] = dst /\ e[1] \in Elems(xdom) THEN buf[<<e[1], src>>] ELSE buf[e]]

\* for (ix = 0; ix < ghost.extents(); ++ix) deepcopy(chunk[ghost[ix]][ydom], chunk[mirror[ix]][ydom])
RECURSIVE bc_x(_, _, _, _, _)
bc_x(buf, ghost, mirror, ydom, ix) ==
    IF ix < ghost.extents
    THEN bc_x(deepcopy_x(buf, ghost.front + ix, mirror.front + ix, ydom),
              ghost, mirror, ydom, ix + 1)
    ELSE buf

\* for (iy = 0; iy < ghost.extents(); ++iy) deepcopy(chunk[xdom][ghost[iy]], chunk[xdom][mirror[iy]])
RECURSIVE bc_y(_, _, _, _, _)
bc_y(buf, ghost, mirror, xdom, iy) ==
    IF iy < ghost.extents
    THEN bc_y(deepcopy_y(buf, ghost.front + iy, mirror.front + iy, xdom),
              ghost, mirror, xdom, iy + 1)
    ELSE buf

Boundary(at, next, newbuf) ==
    /\ pc = at
    /\ UNCHANGED <<pvars, lvars>>
    /\ buffers' = [buffers EXCEPT ![ghosted_last_temp] = newbuf]
    /\ pc' = next
    /\ UNCHANGED <<xvars, yvars, nb_time_steps, ghosted_last_temp, ghosted_next_temp,
                   ovars, iter>>

\* variant: the pre-ghost cells filled from the post mirror
BoundaryXPre_wrong_mirror ==
    Boundary("bc_x_pre", "bc_x_post",
             bc_x(buffers[ghosted_last_temp], x_pre_ghost, x_post_mirror, y_domain, 0))

\* the x_pre_ghost loop of the boundary conditions
BoundaryXPre ==
    Boundary("bc_x_pre", "bc_x_post",
             bc_x(buffers[ghosted_last_temp], x_pre_ghost, x_pre_mirror, y_domain, 0))

\* the x_post_ghost loop
BoundaryXPost ==
    Boundary("bc_x_post", "bc_y_pre",
             bc_x(buffers[ghosted_last_temp], x_post_ghost, x_post_mirror, y_domain, 0))

\* the y_pre_ghost loop
BoundaryYPre ==
    Boundary("bc_y_pre", "bc_y_post",
             bc_y(buffers[ghosted_last_temp], y_pre_ghost, y_pre_mirror, x_domain, 0))

\* the y_post_ghost loop
BoundaryYPost ==
    Boundary("bc_y_post", "scheme",
             bc_y(buffers[ghosted_last_temp], y_post_ghost, y_post_mirror, x_domain, 0))

\* last_temp(e): a read outside the storage or of an unwritten cell is Undef
last_temp(buf, e) == IF e \in DOMAIN buf THEN buf[e] ELSE Undef

\* one second-difference term of the scheme:
\* k * dt * (d_l * t_r - 2.0 * d_m * t_c + d_r * t_l) / (d_l * d_m * d_r), d_m = 0.5 * (d_l + d_r)
diffusion(k_dt, d_l, d_r, t_l, t_c, t_r) ==
    (k_dt * 2 * (d_l * t_r - (d_l + d_r) * t_c + d_r * t_l)) \div (d_l * (d_l + d_r) * d_r)

\* variant: the right neighbour along X read one row further along Y
scheme_diagonal(buf, ix, iy) ==
    LET t_c == last_temp(buf, <<ix, iy>>)
        t_xr == last_temp(buf, <<ix + 1, iy + 1>>)
        t_xl == last_temp(buf, <<ix - 1, iy>>)
        t_yr == last_temp(buf, <<ix, iy + 1>>)
        t_yl == last_temp(buf, <<ix, iy - 1>>)
    IN IF Undef \in {t_c, t_xr, t_xl, t_yr, t_yl}
       THEN Undef
       ELSE t_c
            + diffusion(kx_dt, nu_distance_at_left(x_points, ix),
                        nu_distance_at_right(x_points, ix), t_xl, t_c, t_xr)
            + diffusion(ky_dt, nu_distance_at_left(y_points, iy),
                        nu_distance_at_right(y_points, iy), t_yl, t_c, t_yr)

\* the value the kernel of the numerical scheme stores in next_temp(ix, iy)
scheme(buf, ix, iy) ==
    LET t_c == last_temp(buf, <<ix, iy>>)
        t_xr == last_temp(buf, <<ix + 1, iy>>)
        t_xl == last_temp(buf, <<ix - 1, iy>>)
        t_yr == last_temp(buf, <<ix, iy + 1>>)
        t_yl == last_temp(buf, <<ix, iy - 1>>)
    IN IF Undef \in {t_c, t_xr, t_xl, t_yr, t_yl}
       THEN Undef
       ELSE t_c
            + diffusion(kx_dt, nu_distance_at_left(x_points, ix),
                        nu_distance_at_right(x_points, ix), t_xl, t_c, t_xr)
            + diffusion(ky_dt, nu_distance_at_left(y_points, iy),
                        nu_distance_at_right(y_points, iy), t_yl, t_c, t_yr)

\* parallel_for_each(next_temp.domain(), kernel), next_temp over (x_domain, y_domain)
NumericalScheme ==
    /\ pc = "scheme"
    /\ UNCHANGED <<pvars, lvars>>
    /\ buffers' = [buffers EXCEPT ![ghosted_next_temp] =
          [e \in DOMAIN @ |->
              IF e \in Elems2(x_domain, y_domain)
              THEN scheme(buffers[ghosted_last_temp], e[1], e[2])
              ELSE @[e]]]
    /\ pc' = "output"
    /\ UNCHANGED <<xvars, yvars, nb_time_steps, ghosted_last_temp, ghosted_next_temp,
                   ovars, iter>>

\* if (iter - last_output_iter >= t_output_period) { ... display(coordinate(iter), ...) }
Output ==
    /\ pc = "output"
    /\ UNCHANGED <<pvars, lvars>>
    /\ IF iter - last_output_iter >= t_output_period
       THEN /\ last_output_iter' = iter
            /\ ghosted_temp' = buffers[ghosted_next_temp]
            /\ displayed' = Append(displayed, display(iter, buffers[ghosted_next_temp]))
       ELSE UNCHANGED ovars
    /\ pc' = "swap"
    /\ UNCHANGED <<xvars, yvars, nb_time_steps, tvars, iter>>

\* std::swap(ghosted_last_temp, ghosted_next_temp)
Swap ==
    /\ pc = "swap"
    /\ UNCHANGED <<pvars, lvars>>
    /\ ghosted_last_temp' = ghosted_next_temp
    /\ ghosted_next_temp' = ghosted_last_temp
    /\ pc' = "loop"
    /\ UNCHANGED <<xvars, yvars, nb_time_steps, buffers, ovars, iter>>

\* variant: the final state displayed whatever last_output_iter is
FinalOutput_always ==
    /\ pc = "final_output"
    /\ UNCHANGED <<pvars, lvars>>
    /\ ghosted_temp' = buffers[ghosted_last_temp]
    /\ displayed' = Append(displayed, display(back(time_domain), buffers[ghosted_last_temp]))
    /\ UNCHANGED last_output_iter
    /\ pc' = "done"
    /\ UNCHANGED <<xvars, yvars, nb_time_steps, tvars, iter>>

\* if (last_output_iter < time_domain.back()) { ... display(coordinate(time_domain.back()), ...) }
FinalOutput ==
    /\ pc = "final_output"
    /\ UNCHANGED <<pvars, lvars>>
    /\ IF last_output_iter < back(time_domain)
       THEN /\ ghosted_temp' = buffers[ghosted_last_temp]
            /\ displayed' = Append(displayed,
                                   display(back(time_domain), buffers[ghosted_last_temp]))
            /\ UNCHANGED last_output_iter
       ELSE UNCHANGED ovars
    /\ pc' = "done"
    /\ UNCHANGED <<xvars, yvars, nb_time_steps, tvars, iter>>

HNext ==
    \/ GhostPointsX
    \/ BuildDomainsX
    \/ GhostPointsY
    \/ BuildDomainsY
    \/ TimeDomain
    \/ Allocate
    \/ FillInitial
    \/ InitialDisplay
    \/ TimeIteration
    \/ BoundaryXPre
    \/ BoundaryXPost
    \/ BoundaryYPre
    \/ BoundaryYPost
    \/ NumericalScheme
    \/ Output
    \/ Swap
    \/ FinalOutput

SpecHeat == Init /\ [][HNext]_vars

PNext ==
    \/ DefaultConstruct
    \/ \E origin \in Coords, st \in -1..MaxCoord, n_period \in Periods :
          Construct(origin, st, n_period)
    \/ CopyConstruct
    \/ \E a \in Coords, b \in Coords, n \in Points, n_period \in Periods :
          init(a, b, n, n_period)
    \/ \E a \in Coords, b \in Coords, n \in Points, n_period \in Periods,
          gb \in Ghosts, ga \in Ghosts :
          init_ghosted(a, b, n, n_period, gb, ga)
    \/ \E a \in Coords, b \in Coords, n \in Points, n_period \in Periods,
          n_ghosts \in Ghosts :
          init_ghosted_n(a, b, n, n_period, n_ghosts)
    \/ \E c \in Uids : coordinate(c)
    \/ \E e \in Uids : distance_at_left(e)
    \/ \E e \in Uids : distance_at_right(e)

Spec == Init /\ [][PNext]_vars

\* the samplings built by init and init_ghosted, queried by rmin, rmax, rlength
ENext ==
    \/ \E a \in Coords, b \in Coords, n \in Points, n_period \in Periods :
          init(a, b, n, n_period)
    \/ \E a \in Coords, b \in Coords, n \in Points, n_period \in Periods,
          gb \in Ghosts, ga \in Ghosts :
          init_ghosted(a, b, n, n_period, gb, ga)
    \/ \E d \in QueryDomains : rmin(d)
    \/ \E d \in QueryDomains : rmax(d)
    \/ \E d \in QueryDomains : rlength(d)

SpecExtent == Init /\ [][ENext]_vars

\* indices and periods at the ends of the ranges of std::size_t and int
WideUids == {0, 1, IntMax + 1, SizeMod - 1}
WidePeriods == {1, 2, 3, IntMod, SizeMod - 1}

\* the sampling Impl(0, 1, n_period) queried by coordinate over the whole
\* range of its index
WNext ==
    \/ \E n_period \in WidePeriods : Construct(0, 1, n_period)
    \/ \E c \in WideUids : coordinate(c)

SpecWide == Init /\ [][WNext]_vars

(* ======================= periodic sampling: claims ===================== *)
\* origin + m * step
AtOffset(impl, m) == RatAdd(impl.origin, RatMulInt(impl.step, m))

IsInit == status = "ok" /\ call.op = "init"
IsInitGhosted == status = "ok" /\ call.op \in {"init_ghosted", "init_ghosted_n"}

C3_Original ==
    /\ status = "ok" => RatLt(RatOfInt(0), disc.step) /\ disc.n_period >= 2
    /\ disc_copy # NoImpl => RatLt(RatOfInt(0), disc_copy.step) /\ disc_copy.n_period >= 2
    /\ (call.op = "Impl" /\ (call.b <= 0 \/ call.n_period < 2)) => status = "aborted"
    /\ (call.op \in {"init", "init_ghosted", "init_ghosted_n"} /\ call.n_period < 2)
           => status = "aborted"

\* C3 (amended): every instance has step > 0 and n_period >= 1; the instances
\* built by the default constructor, init and init_ghosted have n_period >= 2;
\* Impl(origin, step, n_period) is rejected when step <= 0 or n_period = 0,
\* init and init_ghosted when n_period <= 1.
C3_Amended ==
    /\ status = "ok" => RatLt(RatOfInt(0), disc.step) /\ disc.n_period >= 1
    /\ disc_copy # NoImpl => RatLt(RatOfInt(0), disc_copy.step) /\ disc_copy.n_period >= 1
    /\ (status = "ok" /\ call.op # "Impl") => disc.n_period >= 2
    /\ (disc_copy # NoImpl /\ call.op # "Impl") => disc_copy.n_period >= 2
    /\ (call.op = "Impl" /\ (call.b <= 0 \/ call.n_period < 1)) => status = "aborted"
    /\ (call.op \in {"init", "init_ghosted", "init_ghosted_n"} /\ call.n_period < 2)
           => status = "aborted"

\* an instance with a single step per period, copied to another memory space
C3_Witness ==
    /\ status = "ok"
    /\ call.op = "Impl"
    /\ disc.n_period = 1
    /\ disc_copy = disc

\* C4: init(a, b, n, n_period) with a < b, n >= 2, n_period >= 2 returns
\* origin = a, step = (b - a)/(n - 1), the given n_period and the domain of
\* front 0 and size n; a call with n <= 1 is rejected.
C4_Init ==
    /\ IsInit =>
          /\ call.a < call.b /\ call.n >= 2 /\ call.n_period >= 2
          /\ disc.origin = RatOfInt(call.a)
          /\ RatMulInt(disc.step, call.n - 1) = RatOfInt(call.b - call.a)
          /\ disc.n_period = call.n_period
          /\ main_domain.front = 0
          /\ Cardinality(Elems(main_domain)) = call.n
    /\ (call.op = "init" /\ call.a < call.b /\ call.n >= 2 /\ call.n_period >= 2)
          => status = "ok"
    /\ (call.op = "init" /\ call.n <= 1) => status = "aborted"

\* an accepted init whose step is not an integer
C4_Witness == IsInit /\ call.n = 3 /\ disc.step[2] = 2

\* C5 (as claimed): after init and init_ghosted the first point of the main
\* domain has coordinate a and its last point has coordinate b.
C5_Endpoints ==
    (IsInit \/ IsInitGhosted) =>
        /\ Impl_coordinate(disc, main_domain.front) = {RatOfInt(call.a)}
        /\ Impl_coordinate(disc, back(main_domain)) = {RatOfInt(call.b)}

\* C6: distance_at_left(e) and distance_at_right(e) return step for every e.
C6_Distances ==
    query.fn \in {"distance_at_left", "distance_at_right"} => query.res = disc.step

\* distance_at_left asked where the coordinate wraps around
C6_Witness ==
    /\ query.fn = "distance_at_left"
    /\ query.arg >= 1
    /\ \E x \in Impl_coordinate(disc, query.arg), y \in Impl_coordinate(disc, query.arg - 1) :
          RatLt(x, y)

\* C7: every coordinate is origin + m * step for an integer m with
\* -floor(P/2) <= m <= P - 1 - floor(P/2), P = n_period.
C7_PrincipalInterval ==
    query.fn = "coordinate" =>
        LET P == disc.n_period
        IN \E m \in (-(P \div 2))..(P - 1 - P \div 2) : query.res = AtOffset(disc, m)

\* a coordinate at the upper end of the principal interval of an odd period
C7_Witness ==
    /\ query.fn = "coordinate"
    /\ disc.n_period = 3
    /\ query.arg > 1
    /\ query.res = AtOffset(disc, 1)

\* C8: init_ghosted returns ghosted = [0, n + gb + ga), pre_ghost its leading
\* gb indices, post_ghost its trailing ga indices and main of size n between
\* them; the three are pairwise disjoint and cover ghosted; the single-count
\* overload has gb = ga = n_ghosts.
C8_InitGhosted ==
    IsInitGhosted =>
        LET n == call.n
            gb == call.gb
            ga == call.ga
        IN /\ Elems(ghosted_domain) = 0..(n + gb + ga - 1)
           /\ Elems(pre_ghost) = 0..(gb - 1)
           /\ Elems(main_domain) = gb..(gb + n - 1)
           /\ Elems(post_ghost) = (gb + n)..(gb + n + ga - 1)
           /\ main_domain.extents = n /\ pre_ghost.extents = gb /\ post_ghost.extents = ga
           /\ Elems(pre_ghost) \cap Elems(main_domain) = {}
           /\ Elems(main_domain) \cap Elems(post_ghost) = {}
           /\ Elems(pre_ghost) \cap Elems(post_ghost) = {}
           /\ Elems(pre_ghost) \cup Elems(main_domain) \cup Elems(post_ghost)
                 = Elems(ghosted_domain)
           /\ call.op = "init_ghosted_n" =>
                 /\ gb = ga
                 /\ disc = init_ghosted_disc(call.a, call.b, n, call.n_period, gb)

\* an init_ghosted with different, non-zero ghost counts
C8_Witness == IsInitGhosted /\ call.gb = 2 /\ call.ga = 1 /\ call.op = "init_ghosted"

(* ========================= heat example: claims ======================== *)
XBuilt == pc \notin {"start", "build_x"}
YBuilt == XBuilt /\ pc \notin {"ghost_y", "build_y"}

\* mirror is the last ghost.extents indices of main
IsLastSliceOf(mirror, ghost, main) ==
    /\ mirror.extents = ghost.extents
    /\ Elems(mirror) = (back(main) - ghost.extents + 1)..back(main)

\* mirror is the first ghost.extents indices of main
IsFirstSliceOf(mirror, ghost, main) ==
    /\ mirror.extents = ghost.extents
    /\ Elems(mirror) = main.front..(main.front + ghost.extents - 1)

MirrorsInside(pm, qm, pre, post, main) ==
    /\ IsLastSliceOf(pm, pre, main)
    /\ IsFirstSliceOf(qm, post, main)
    /\ Elems(pm) \subseteq Elems(main)
    /\ Elems(qm) \subseteq Elems(main)
    /\ (Elems(pm) \cup Elems(qm)) \cap (Elems(pre) \cup Elems(post)) = {}

\* C9: pre_mirror is exactly the last gw_pre indices of the main domain and
\* post_mirror exactly its first gw_post indices; both lie inside the main
\* domain and are disjoint from pre_ghost and post_ghost.
C9_Mirrors ==
    /\ XBuilt => MirrorsInside(x_pre_mirror, x_post_mirror, x_pre_ghost, x_post_ghost, x_domain)
    /\ YBuilt => MirrorsInside(y_pre_mirror, y_post_mirror, y_pre_ghost, y_post_ghost, y_domain)

\* both dimensions built, with non-empty and different mirrors
C9_Witness ==
    /\ YBuilt
    /\ x_pre_ghost.extents > 0 /\ y_post_ghost.extents > 0
    /\ x_pre_mirror # x_post_mirror
    /\ y_pre_mirror # y_post_mirror

AfterBoundaryConditions == pc \in {"scheme", "output", "swap"}

\* ghost cells and mirror cells of X hold the same values along dom of Y
SameAlongY(buf, ghost, mirror, dom) ==
    \A k \in 0..(ghost.extents - 1), j \in Elems(dom) :
        /\ buf[<<ghost.front + k, j>>] = buf[<<mirror.front + k, j>>]
        /\ buf[<<ghost.front + k, j>>] # Undef

\* ghost cells and mirror cells of Y hold the same values along dom of X
SameAlongX(buf, ghost, mirror, dom) ==
    \A k \in 0..(ghost.extents - 1), j \in Elems(dom) :
        /\ buf[<<j, ghost.front + k>>] = buf[<<j, mirror.front + k>>]
        /\ buf[<<j, ghost.front + k>>] # Undef

\* C10: after the boundary-condition copies of a time iteration every ghost
\* value of ghosted_last_temp equals the value at the corresponding mirror
\* index, along every interior index of the other dimension.
C10_GhostCopy ==
    AfterBoundaryConditions =>
        LET last == buffers[ghosted_last_temp]
        IN /\ SameAlongY(last, x_pre_ghost, x_pre_mirror, y_domain)
           /\ SameAlongY(last, x_post_ghost, x_post_mirror, y_domain)
           /\ SameAlongX(last, y_pre_ghost, y_pre_mirror, x_domain)
           /\ SameAlongX(last, y_post_ghost, y_post_mirror, x_domain)

\* a later iteration in which the two X ghost columns hold different values
C10_Witness ==
    /\ pc = "scheme"
    /\ iter >= 2
    /\ \E j \in Elems(y_domain) :
          buffers[ghosted_last_temp][<<x_pre_ghost.front, j>>]
              # buffers[ghosted_last_temp][<<x_post_ghost.front, j>>]


(* ==================== tests/parallel_for_each.cpp ====================== *)
\* DElemX lbound_x(0), DElemY lbound_y(0)
lbound_x == 0
lbound_y == 0

\* scaled-down DVectX nelems_x(10), DVectY nelems_y(12)
nelems_x == 2
nelems_y == 2

\* the strided test runs for every extent up to MaxExtent and every stride
\* from 2 to MaxStride (the test itself fixes nelems_x_y and DVectXY(3, 3))
MaxExtent == 3
MaxStride == 3

fframe == <<pvars, hvars, rvars, bvars, gvars, dvars, jvars, tvars_tt, svars>>

HostTests == {"Host.ZeroDimension", "Host.OneDimension", "Host.TwoDimensions"}
DeviceTests == {"Device.ZeroDimension", "Device.OneDimension", "Device.TwoDimensions"}
StridedTest == "Device.TwoDimensionsStrided"

\* DDom0D const dom; DDomX const dom(lbound_x, nelems_x); DDomXY const dom(lbound_x_y, nelems_x_y)
test_dom(test) ==
    IF test \in {"Host.ZeroDimension", "Device.ZeroDimension"}
    THEN DiscreteDomainN(<<>>, <<>>)
    ELSE IF test \in {"Host.OneDimension", "Device.OneDimension"}
    THEN DiscreteDomainN(<<lbound_x>>, <<nelems_x>>)
    ELSE DiscreteDomainN(<<lbound_x, lbound_y>>, <<nelems_x, nelems_y>>)

\* DDomXY const dom(lbound_x_y, nelems_x_y, DVectXY(3, 3)), StridedDiscreteDomain
strided_test_dom(ex, ey, sx, sy) ==
    StridedDiscreteDomain(<<lbound_x, lbound_y>>, <<ex, ey>>, <<sx, sy>>)

\* parallel_for_each(exec, domain, kernel): one invocation per element of the
\* domain, started and completed in any order
parallel_for_each(d) == dom_elems(d)

\* std::vector<int> storage(dom.size(), 0); Kokkos::deep_copy(storage.allocation_kokkos_view(), 0);
\* ddc::parallel_for_each(dom, kernel)
TestBody(test, d) ==
    /\ fe_pc = "start"
    /\ fe_test' = test
    /\ fe_dom' = d
    /\ storage' = [i \in 0..(dom_size(d) - 1) |-> 0]
    /\ pending' = parallel_for_each(d)
    /\ loaded' = {}
    /\ fe_pc' = "running"
    /\ UNCHANGED sum
    /\ UNCHANGED fframe

\* the tests over DiscreteDomain<>, <DDimX>, <DDimX, DDimY>
PlainTest == \E test \in HostTests \cup DeviceTests : TestBody(test, test_dom(test))

\* TestParallelForEachParallelDeviceTwoDimensionsStrided
StridedTestBody ==
    \E ex \in 1..MaxExtent, ey \in 1..MaxExtent, sx \in 2..MaxStride, sy \in 2..MaxStride :
        TestBody(StridedTest, strided_test_dom(ex, ey, sx, sy))

\* variant: the kernel ignores its argument and updates the first element
kernel_elem_front(d, i) == d.front

\* the element the kernel [=](DElem const i) { view(i) += 1; } updates
kernel_elem(d, i) == i

\* view(i) += 1, first half: the invocation for element i reads view(i)
KernelLoad(i) ==
    /\ fe_pc = "running"
    /\ i \in pending
    /\ pending' = pending \ {i}
    /\ loaded' = loaded \cup {<<i, storage[slot(fe_dom, kernel_elem(fe_dom, i))]>>}
    /\ UNCHANGED <<fe_test, fe_pc, fe_dom, storage, sum>>
    /\ UNCHANGED fframe

\* view(i) += 1, second half: the invocation stores the incremented value
KernelStore(i, v) ==
    /\ fe_pc = "running"
    /\ <<i, v>> \in loaded
    /\ loaded' = loaded \ {<<i, v>>}
    /\ storage' = [storage EXCEPT ![slot(fe_dom, kernel_elem(fe_dom, i))] = v + 1]
    /\ UNCHANGED <<fe_test, fe_pc, fe_dom, pending, sum>>
    /\ UNCHANGED fframe

\* parallel_for_each returns when every invocation has completed
ForEachJoin ==
    /\ fe_pc = "running"
    /\ pending = {}
    /\ loaded = {}
    /\ fe_pc' = "joined"
    /\ UNCHANGED <<fe_test, fe_dom, storage, pending, loaded, sum>>
    /\ UNCHANGED fframe

\* std::count(storage.begin(), storage.end(), 1)
count_ones(buf) == Cardinality({i \in DOMAIN buf : buf[i] = 1})

RECURSIVE sum_upto(_, _)
\* Kokkos::parallel_reduce(n, local_sum += ptr[i], Kokkos::Sum<int>(sum))
sum_upto(buf, n) == IF n = 0 THEN 0 ELSE buf[n - 1] + sum_upto(buf, n - 1)

\* variant: the reduction runs over the first row only
reduce_range_row(d) == IF Len(d.front) = 2 THEN size_per_dim(d, 2) ELSE dom_size(d)

\* the range of the parallel_reduce: dom.size()
reduce_range(d) == dom_size(d)

\* the left-hand side of EXPECT_EQ(..., dom.size())
TestExpect ==
    /\ fe_pc = "joined"
    /\ sum' = IF fe_test \in HostTests
              THEN count_ones(storage)
              ELSE sum_upto(storage, reduce_range(fe_dom))
    /\ fe_pc' = "done"
    /\ UNCHANGED <<fe_test, fe_dom, storage, pending, loaded>>
    /\ UNCHANGED fframe

FNext ==
    \/ PlainTest
    \/ StridedTestBody
    \/ \E i \in pending : KernelLoad(i)
    \/ \E p \in loaded : KernelStore(p[1], p[2])
    \/ ForEachJoin
    \/ TestExpect

SpecForEach == Init /\ [][FNext]_vars

(* ======================= parallel_for_each: claims ===================== *)
\* view(e): the value the chunk span holds for element e
view(e) == storage[slot(fe_dom, e)]

ForEachReturned == fe_pc \in {"joined", "done"}

\* C11: when parallel_for_each has returned in a test over a 0-, 1- or
\* 2-dimensional domain, whatever the order in which the invocations ran, the
\* zero-initialised chunk holds one at every element of the domain (each
\* element received exactly one increment); the 0-dimensional domain has size
\* one and so one invocation; the test's count equals dom.size().
C11_ForEachOnce ==
    (ForEachReturned /\ fe_test \in HostTests \cup DeviceTests) =>
        /\ \A e \in dom_elems(fe_dom) : view(e) = 1
        /\ Cardinality(dom_elems(fe_dom)) = dom_size(fe_dom)
        /\ (Len(fe_dom.front) = 0 => dom_size(fe_dom) = 1 /\ DOMAIN storage = {0})
        /\ (fe_pc = "done" => sum = dom_size(fe_dom))

\* a two-dimensional run has completed
C11_Witness ==
    /\ fe_pc = "done"
    /\ fe_test = "Host.TwoDimensions"
    /\ dom_size(fe_dom) = nelems_x * nelems_y
    /\ sum = dom_size(fe_dom)

\* the ceiling of the quotient, computed from its definition
CeilDiv(a, b) == CHOOSE q \in 0..a : q * b >= a /\ (q - 1) * b < a

MaxReduce == 3
MaxValue == 1
MaxWorkers == 2

rframe == <<pvars, hvars, fvars, bvars, gvars, dvars, jvars, tvars_tt, svars>>

\* ddc::reducer::sum, ddc::reducer::max, ddc::reducer::min
reduce(reducer, a, b) ==
    IF reducer = "sum" THEN a + b
    ELSE IF reducer = "max" THEN (IF a < b THEN b ELSE a)
    ELSE (IF b < a THEN b ELSE a)

ReduceCall(site, neutral, reducer) == [neutral |-> neutral, reducer |-> reducer, site |-> site]

\* variant: the mean temperature accumulated from one
display_mean_from_one == ReduceCall("display", 1, "sum")

\* display(): transform_reduce(temp.domain(), 0., ddc::reducer::sum<double>(), temp)
display_mean == ReduceCall("display", 0, "sum")

\* main(): transform_reduce(x_domain, 0., ddc::reducer::max<double>(), 1. / (dl * dr))
cfl_invdx2_max == ReduceCall("cfl", 0, "max")

\* ComputeEvaluationError: parallel_transform_reduce(exec_space, domain, 0.,
\* ddc::reducer::max<double>(), Kokkos::abs(spline_eval(e) - vals(e)))
max_norm_error == ReduceCall("max_norm_error", 0, "max")

\* a call with ddc::reducer::min and the largest value as neutral value
min_call == ReduceCall("min", MaxValue, "min")

CallSites == {display_mean, cfl_invdx2_max, max_norm_error, min_call}

\* the call: the work is split into k parts, each starting from the neutral value
TransformReduce(c, vals, k) ==
    /\ tr_pc = "start"
    /\ tr_call' = c
    /\ tr_vals' = vals
    /\ tr_todo' = DOMAIN vals
    /\ tr_partials' = [w \in 1..k |-> c.neutral]
    /\ tr_pc' = "running"
    /\ UNCHANGED tr_result
    /\ UNCHANGED rframe

\* part w transforms element e and reduces it into its partial result
ReduceElement(w, e) ==
    /\ tr_pc = "running"
    /\ e \in tr_todo
    /\ w \in DOMAIN tr_partials
    /\ tr_todo' = tr_todo \ {e}
    /\ tr_partials' = [tr_partials EXCEPT ![w] = reduce(tr_call.reducer, @, tr_vals[e])]
    /\ UNCHANGED <<tr_pc, tr_call, tr_vals, tr_result>>
    /\ UNCHANGED rframe

\* the partial result of part w2 is joined into the one of part w1
ReduceJoin(w1, w2) ==
    /\ tr_pc = "running"
    /\ tr_todo = {}
    /\ w1 \in DOMAIN tr_partials /\ w2 \in DOMAIN tr_partials /\ w1 # w2
    /\ tr_partials' = [w \in DOMAIN tr_partials \ {w2} |->
                          IF w = w1
                          THEN reduce(tr_call.reducer, tr_partials[w1], tr_partials[w2])
                          ELSE tr_partials[w]]
    /\ UNCHANGED <<tr_pc, tr_call, tr_vals, tr_todo, tr_result>>
    /\ UNCHANGED rframe

\* the call returns the last partial result
ReduceReturn ==
    /\ tr_pc = "running"
    /\ tr_todo = {}
    /\ \E w \in DOMAIN tr_partials :
          /\ DOMAIN tr_partials = {w}
          /\ tr_result' = tr_partials[w]
    /\ tr_pc' = "done"
    /\ UNCHANGED <<tr_call, tr_vals, tr_todo, tr_partials>>
    /\ UNCHANGED rframe

RNext ==
    \/ \E c \in CallSites, n \in 1..MaxReduce, k \in 1..MaxWorkers :
          \E vals \in [1..n -> 0..MaxValue] : TransformReduce(c, vals, k)
    \/ \E w \in 1..MaxWorkers, e \in 1..MaxReduce : ReduceElement(w, e)
    \/ \E w1 \in 1..MaxWorkers, w2 \in 1..MaxWorkers : ReduceJoin(w1, w2)
    \/ ReduceReturn

SpecReduce == Init /\ [][RNext]_vars

(* ======================= transform_reduce: claims ====================== *)
RECURSIVE SerialFold(_, _, _, _)
\* r = neutral; for e = 1 .. n in order: r = reducer(r, vals[e])
SerialFold(reducer, neutral, vals, n) ==
    IF n = 0 THEN neutral
    ELSE reduce(reducer, SerialFold(reducer, neutral, vals, n - 1), vals[n])

\* C13: whatever the number of parts, the assignment of elements to parts and
\* the order of the joins, a sum, max or min reduction returns the serial
\* fold of the kernel values over the domain from the neutral value.
C13_ReduceIsSerialFold ==
    tr_pc = "done" =>
        tr_result = SerialFold(tr_call.reducer, tr_call.neutral, tr_vals, Len(tr_vals))

\* a sum over three elements split into two parts has returned
C13_Witness ==
    /\ tr_pc = "done"
    /\ tr_call.reducer = "sum"
    /\ Len(tr_vals) = 3
    /\ tr_result = 2


(* ========================== tests/block.cpp ============================ *)
(* Values are integers in units of 0.001: 1. * ii + .001 * jj is           *)
(* 1000 * ii + jj.  The fixtures run for every extent up to MaxBlockExtent *)
(* (the tests fix 91 and 101 x 101) and for a zero and a non-zero front.   *)
MaxBlockExtent == 3

\* scaled-down MCoordX(10), MCoordXVx(100, 100): the non-zero front
nonzero_front == 2

\* constexpr auto SLICE_VAL = 1
SLICE_VAL == 1

bframe == <<pvars, hvars, fvars, rvars, gvars, dvars, jvars, tvars_tt, svars>>

MeshX == "X"
MeshVx == "Vx"

MCoordX(i) == MCoord(<<MeshX>>, <<i>>)
MCoordVx(j) == MCoord(<<MeshVx>>, <<j>>)

\* MDomainX dom(mesh, MCoordX(front), MLengthX(n))
MDomainX(front, n) == ProductMDomain(<<MeshX>>, <<front>>, <<n>>)

\* MDomainSpXVx dom(mesh_x, mesh_vx, MCoordXVx(front, front), MLengthXVx(nx, nvx))
MDomainSpXVx(front, nx, nvx) == ProductMDomain(<<MeshX, MeshVx>>, <<front, front>>, <<nx, nvx>>)

XTests == {"DBlockXTest.deepcopy", "DBlockXTest.domain"}
XVxTests == {"DBlockXVxTest.deepcopy", "DBlockXVxTest.reordering", "DBlockXVxTest.slice",
             "DBlockXVxTest.automatic_reordering"}
NonZeroTests == {"NonZeroDBlockXVxTest.slice", "NonZeroDBlockXVxTest.view"}
DeepcopyTests == {"DBlockXTest.deepcopy", "DBlockXVxTest.deepcopy"}
SliceTests == {"DBlockXVxTest.slice", "NonZeroDBlockXVxTest.slice"}

\* the value block(args...) reads; outside the buffer the read is not defined
read(data, span, coord) ==
    IF offset_of(span, coord) \in DOMAIN data[span.buffer]
    THEN data[span.buffer][offset_of(span, coord)]
    ELSE Undef

\* block(ii, jj) for tagged arguments given in any order
at(data, span, args) == read(data, span, MCoordOf(args))

\* the fixture and DBlock block(dom): storage not yet written
BlockFixture(test, d) ==
    /\ bk_pc = "start"
    /\ bk_test' = test
    /\ bk_dom' = d
    /\ block' = Block(1, d)
    /\ bk_data' = [b \in {1} |-> [o \in 0..(product_from(d.extents, 1) - 1) |-> Undef]]
    /\ bk_pc' = "fill"
    /\ UNCHANGED <<block2, block_x, block_v, subblock, slice_val, sub_req, bk_ok>>
    /\ UNCHANGED bframe

Fixture ==
    \/ \E test \in XTests, f \in {0, nonzero_front}, n \in 1..MaxBlockExtent :
          BlockFixture(test, MDomainX(f, n))
    \/ \E test \in XVxTests, nx \in 1..MaxBlockExtent, nvx \in 1..MaxBlockExtent :
          BlockFixture(test, MDomainSpXVx(0, nx, nvx))
    \/ \E test \in NonZeroTests, nx \in 1..MaxBlockExtent, nvx \in 1..MaxBlockExtent :
          BlockFixture(test, MDomainSpXVx(nonzero_front, nx, nvx))

\* block(ii) = 1.001 * ii; block(ii, jj) = 1. * ii + .001 * jj
fill_value(coord) ==
    IF Len(coord.tags) = 1 THEN 1001 * get(coord, MeshX)
    ELSE 1000 * get(coord, MeshX) + get(coord, MeshVx)

\* for (ii : block.domain<MeshX>()) for (jj : block.domain<MeshVx>()) block(ii, jj) = ...
BlockFill ==
    /\ bk_pc = "fill"
    /\ bk_data' = [bk_data EXCEPT ![block.buffer] =
          [o \in DOMAIN @ |->
              IF \E c \in MCoords(block.domain) : offset_of(block, c) = o
              THEN fill_value(CHOOSE c \in MCoords(block.domain) : offset_of(block, c) = o)
              ELSE @[o]]]
    /\ bk_pc' = "body"
    /\ UNCHANGED <<bk_test, bk_dom, block, block2, block_x, block_v, subblock, slice_val,
                   sub_req, bk_ok>>
    /\ UNCHANGED bframe

\* a second block over domain d, with its own storage
WithBlock2(data, d) ==
    [b \in {1, 2} |-> IF b = 1 THEN data[1]
                      ELSE [o \in 0..(product_from(d.extents, 1) - 1) |-> Undef]]

\* variant: the arguments of deepcopy exchanged
deepcopy_call_swapped(data, dst, src) == [data EXCEPT ![src.buffer] = deepcopy(data, src, dst)]

\* deepcopy(block2, block)
deepcopy_call(data, dst, src) == [data EXCEPT ![dst.buffer] = deepcopy(data, dst, src)]

\* TEST_F(DBlockXTest, deepcopy), TEST_F(DBlockXVxTest, deepcopy)
DeepcopyBody ==
    /\ bk_pc = "body"
    /\ bk_test \in DeepcopyTests
    /\ LET b2 == Block(2, block.domain)
           data == deepcopy_call(WithBlock2(bk_data, block.domain), b2, block)
       IN /\ block2' = b2
          /\ bk_data' = data
          /\ bk_ok' = \A c \in MCoords(block.domain) : read(data, b2, c) = read(data, block, c)
    /\ bk_pc' = "done"
    /\ UNCHANGED <<bk_test, bk_dom, block, block_x, block_v, subblock, slice_val, sub_req>>
    /\ UNCHANGED bframe

\* TEST_F(DBlockXVxTest, reordering): block_reordered over select<MeshVx, MeshX>(dom)
ReorderingBody ==
    /\ bk_pc = "body"
    /\ bk_test = "DBlockXVxTest.reordering"
    /\ LET dom_reordered == select(bk_dom, <<MeshVx, MeshX>>)
           block_reordered == Block(2, dom_reordered)
           data == deepcopy_call(WithBlock2(bk_data, dom_reordered), block_reordered, block)
       IN /\ block2' = block_reordered
          /\ bk_data' = data
          /\ bk_ok' = \A ii \in range(bk_dom, 1), jj \in range(bk_dom, 2) :
                         at(data, block_reordered, <<MCoordVx(jj), MCoordX(ii)>>)
                             = at(data, block, <<MCoordX(ii), MCoordVx(jj)>>)
    /\ bk_pc' = "done"
    /\ UNCHANGED <<bk_test, bk_dom, block, block_x, block_v, subblock, slice_val, sub_req>>
    /\ UNCHANGED bframe

\* variant: the indices passed in the other order under the same tags
reordered_args_by_position(ii, jj) == <<MCoordX(jj), MCoordVx(ii)>>

\* the arguments of block(jj, ii), ii over MeshX and jj over MeshVx
reordered_args(ii, jj) == <<MCoordVx(jj), MCoordX(ii)>>

\* TEST_F(DBlockXVxTest, automatic_reordering)
AutomaticReorderingBody ==
    /\ bk_pc = "body"
    /\ bk_test = "DBlockXVxTest.automatic_reordering"
    /\ bk_ok' = \A ii \in range(bk_dom, 1), jj \in range(bk_dom, 2) :
                   at(bk_data, block, reordered_args(ii, jj))
                       = at(bk_data, block, <<MCoordX(ii), MCoordVx(jj)>>)
    /\ bk_pc' = "done"
    /\ UNCHANGED <<bk_test, bk_dom, bk_data, block, block2, block_x, block_v, subblock,
                   slice_val, sub_req>>
    /\ UNCHANGED bframe

\* the outcome of assertions that read through a slice taken at index v of
\* tag k: outside the domain the reads are out of bounds and the outcome is
\* not determined
Asserted(k, v, holds) ==
    IF v \in range(bk_dom, k) THEN bk_ok' = (bk_ok /\ holds) ELSE bk_ok' \in BOOLEAN

\* variant: the slice taken on the other tag
slice_x_arg_on_x(v) == MCoordX(v)

\* the argument of constref_block[MCoord<MeshVx>(SLICE_VAL)]
slice_x_arg(v) == MCoordVx(v)

\* the argument of constref_block[MCoord<MeshX>(SLICE_VAL)]
slice_v_arg(v) == MCoordX(v)

\* block_x = constref_block[MCoord<MeshVx>(SLICE_VAL)] and its assertions; the
\* model takes the slice at SLICE_VAL and at every index of the domain
SliceXBody ==
    /\ bk_pc = "body"
    /\ bk_test \in SliceTests
    /\ \E v \in {SLICE_VAL} \cup range(bk_dom, 2) :
          LET sl == slice_at(block, slice_x_arg(v))
          IN /\ slice_val' = <<v, slice_val[2]>>
             /\ block_x' = sl
             /\ Asserted(2, v,
                   /\ sl.domain.tags = <<MeshX>>
                   /\ sl.domain.extents[1] = block.domain.extents[1]
                   /\ \A ii \in range(bk_dom, 1) :
                         at(bk_data, sl, <<MCoordX(ii)>>)
                             = at(bk_data, block, <<MCoordX(ii), MCoordVx(v)>>))
    /\ bk_pc' = "slice_v"
    /\ UNCHANGED <<bk_test, bk_dom, bk_data, block, block2, block_v, subblock, sub_req>>
    /\ UNCHANGED bframe

\* block_v = constref_block[MCoord<MeshX>(SLICE_VAL)] and its assertions
SliceVBody ==
    /\ bk_pc = "slice_v"
    /\ \E v \in {SLICE_VAL} \cup range(bk_dom, 1) :
          LET sl == slice_at(block, slice_v_arg(v))
          IN /\ slice_val' = <<slice_val[1], v>>
             /\ block_v' = sl
             /\ Asserted(1, v,
                   /\ sl.domain.tags = <<MeshVx>>
                   /\ sl.domain.extents[1] = block.domain.extents[2]
                   /\ \A jj \in range(bk_dom, 2) :
                         at(bk_data, sl, <<MCoordVx(jj)>>)
                             = at(bk_data, block, <<MCoordX(v), MCoordVx(jj)>>))
    /\ bk_pc' = "subblock"
    /\ UNCHANGED <<bk_test, bk_dom, bk_data, block, block2, block_x, subblock, sub_req>>
    /\ UNCHANGED bframe

\* variant: the front and the extent of the subdomain exchanged
subblock_arg_swapped(f, m) == MDomainX(m, f)

\* the argument of constref_block[ProductMDomain<MeshX>(mesh_x, MCoordX(f), MLengthX(m))]
subblock_arg(f, m) == MDomainX(f, m)

\* subblock = constref_block[ProductMDomain<MeshX>(...)] and its assertions;
\* the model takes every subdomain inside the X range of the block
SubblockBody ==
    /\ bk_pc = "subblock"
    /\ \E f \in range(bk_dom, 1) :
          \E m \in 1..(bk_dom.front[1] + bk_dom.extents[1] - f) :
              LET sl == slice_by(block, subblock_arg(f, m))
              IN /\ sub_req' = <<f, m>>
                 /\ subblock' = sl
                 /\ bk_ok' = /\ bk_ok
                             /\ sl.domain.extents[1] = m
                             /\ sl.domain.extents[2] = select(block.domain, <<MeshVx>>).extents[1]
                             /\ \A ii \in range(sl.domain, 1), jj \in range(sl.domain, 2) :
                                   at(bk_data, sl, <<MCoordX(ii), MCoordVx(jj)>>)
                                       = at(bk_data, block, <<MCoordX(ii), MCoordVx(jj)>>)
    /\ bk_pc' = "done"
    /\ UNCHANGED <<bk_test, bk_dom, bk_data, block, block2, block_x, block_v, slice_val>>
    /\ UNCHANGED bframe

\* TEST_F(DBlockXTest, domain / domainX / get_domainX)
DomainBody ==
    /\ bk_pc = "body"
    /\ bk_test = "DBlockXTest.domain"
    /\ bk_ok' = /\ bk_dom = block.domain
                /\ bk_dom = select(block.domain, <<MeshX>>)
    /\ bk_pc' = "done"
    /\ UNCHANGED <<bk_test, bk_dom, bk_data, block, block2, block_x, block_v, subblock,
                   slice_val, sub_req>>
    /\ UNCHANGED bframe

\* internal_mdspan()(ii, jj): the storage of the block read by the indices of
\* its two dimensions, in the order of the dimensions
internal_mdspan(data, span, ii, jj) ==
    LET o == span.offset + (ii - span.domain.front[1]) * span.strides[1]
                         + (jj - span.domain.front[2]) * span.strides[2]
    IN IF o \in DOMAIN data[span.buffer] THEN data[span.buffer][o] ELSE Undef

\* block.ibegin<Mesh>(), block.iend<Mesh>()
ibegin(span, tag) == span.domain.front[tag_rank(tag, span.domain.tags)]
iend(span, tag) ==
    span.domain.front[tag_rank(tag, span.domain.tags)]
        + span.domain.extents[tag_rank(tag, span.domain.tags)]

\* variant: the two indices exchanged under the same tags
view_arg_swapped(ii, jj) == <<MCoord(<<MeshX, MeshVx>>, <<jj, ii>>)>>

\* the argument of block(MCoordXVx(ii, jj))
view_arg(ii, jj) == <<MCoord(<<MeshX, MeshVx>>, <<ii, jj>>)>>

\* TEST_F(NonZeroDBlockXVxTest, view)
ViewBody ==
    /\ bk_pc = "body"
    /\ bk_test = "NonZeroDBlockXVxTest.view"
    /\ bk_ok' = \A ii \in ibegin(block, MeshX)..(iend(block, MeshX) - 1),
                    jj \in ibegin(block, MeshVx)..(iend(block, MeshVx) - 1) :
                   internal_mdspan(bk_data, block, ii, jj) = at(bk_data, block, view_arg(ii, jj))
    /\ bk_pc' = "done"
    /\ UNCHANGED <<bk_test, bk_dom, bk_data, block, block2, block_x, block_v, subblock,
                   slice_val, sub_req>>
    /\ UNCHANGED bframe

BNext ==
    \/ Fixture
    \/ BlockFill
    \/ DeepcopyBody
    \/ ReorderingBody
    \/ AutomaticReorderingBody
    \/ SliceXBody
    \/ SliceVBody
    \/ SubblockBody
    \/ DomainBody
    \/ ViewBody

SpecBlock == Init /\ [][BNext]_vars


(* ============================ Block: claims ============================ *)
BlockDone(tests) == bk_pc = "done" /\ bk_test \in tests

\* C14: in the automatic_reordering test, for every ii of X and jj of Vx the
\* calls block(jj, ii) and block(ii, jj) designate the same storage element,
\* the one that holds the value written for (ii, jj); the test's assertions hold.
C14_TagsNotPositions ==
    BlockDone({"DBlockXVxTest.automatic_reordering"}) =>
        /\ bk_ok
        /\ \A ii \in range(bk_dom, 1), jj \in range(bk_dom, 2) :
              LET o1 == offset_of(block, MCoordOf(<<MCoordVx(jj), MCoordX(ii)>>))
                  o2 == offset_of(block, MCoordOf(<<MCoordX(ii), MCoordVx(jj)>>))
              IN /\ o1 = o2
                 /\ o1 \in DOMAIN bk_data[block.buffer]
                 /\ bk_data[block.buffer][o1] = 1000 * ii + jj

\* the test has run over a domain with different extents on X and Vx
C14_Witness ==
    /\ BlockDone({"DBlockXVxTest.automatic_reordering"})
    /\ bk_dom.extents = <<2, 3>>
    /\ bk_ok

\* C15: after deepcopy(dst, src) over congruent domains (the same domain, or
\* the domain with its tags in the other order), dst holds at every element
\* the value src holds, whichever order the tagged indices are given in, and
\* src still holds the values it was filled with.
C15_Deepcopy ==
    BlockDone(DeepcopyTests \cup {"DBlockXVxTest.reordering"}) =>
        /\ bk_ok
        /\ \A k \in DOMAIN block2.domain.tags :
              \E r \in DOMAIN block.domain.tags :
                  /\ block2.domain.tags[k] = block.domain.tags[r]
                  /\ block2.domain.extents[k] = block.domain.extents[r]
        /\ Len(block2.domain.tags) = Len(block.domain.tags)
        /\ \A c \in MCoords(block.domain) :
              /\ read(bk_data, block, c) = fill_value(c)
              /\ read(bk_data, block2, c) = read(bk_data, block, c)
        /\ \A c \in MCoords(block2.domain) :
              read(bk_data, block2, c) = read(bk_data, block, c)

\* the copy into a block with the tags in the other order has been made
C15_Witness ==
    /\ BlockDone({"DBlockXVxTest.reordering"})
    /\ block2.domain.tags = <<MeshVx, MeshX>>
    /\ block2.domain.extents = <<3, 2>>
    /\ bk_ok

SlicedX == bk_test \in SliceTests /\ bk_pc \in {"slice_v", "subblock", "done"}
SlicedV == bk_test \in SliceTests /\ bk_pc \in {"subblock", "done"}

C17_SliceBySubdomain ==
    BlockDone(SliceTests) =>
        /\ subblock.domain.tags = <<MeshX, MeshVx>>
        /\ subblock.domain.extents = <<sub_req[2], block.domain.extents[2]>>
        /\ range(subblock.domain, 1) = sub_req[1] .. (sub_req[1] + sub_req[2] - 1)
        /\ range(subblock.domain, 2) = range(block.domain, 2)
        /\ \A ii \in range(subblock.domain, 1), jj \in range(subblock.domain, 2) :
              /\ at(bk_data, subblock, <<MCoordX(ii), MCoordVx(jj)>>)
                     = at(bk_data, block, <<MCoordX(ii), MCoordVx(jj)>>)
              /\ at(bk_data, subblock, <<MCoordX(ii), MCoordVx(jj)>>) = 1000 * ii + jj
        /\ ((slice_val[1] \in range(bk_dom, 2) /\ slice_val[2] \in range(bk_dom, 1)) => bk_ok)

\* a subdomain that starts after the front of a block with a non-zero front
C17_Witness ==
    /\ BlockDone({"NonZeroDBlockXVxTest.slice"})
    /\ bk_dom.extents = <<3, 2>>
    /\ sub_req = <<nonzero_front + 1, 2>>


(* ================= discrete-space registry: a client =================== *)
(* The program acquires the scope guard at startup (main(): ScopeGuard     *)
(* ddc_scope), may acquire it again while it is held, initialises and      *)
(* queries discrete spaces, and releases the guards in reverse order; the  *)
(* release of the outer guard is the teardown.                             *)

\* the deepest nesting of scope guards
MaxGuards == 2

\* the sampling instances a client can register
Samplings == {"sampling_a", "sampling_b"}

gframe == <<pvars, hvars, fvars, rvars, bvars, dvars, jvars, tvars_tt, svars>>

\* ddc::ScopeGuard ddc_scope(argc, argv): at startup, or nested while held
ScopeGuard ==
    /\ ~released
    /\ guards < MaxGuards
    /\ guards' = guards + 1
    /\ reg_last' = RegOp(IF guards = 0 THEN "acquire" ELSE "acquire_nested",
                         "none", "ok", NoSampling, registry)
    /\ UNCHANGED <<released, registry, inits>>
    /\ UNCHANGED gframe

\* the destructor of a scope guard; the outer one tears the registry down
ScopeGuardRelease ==
    /\ guards > 0
    /\ guards' = guards - 1
    /\ IF guards = 1
       THEN /\ registry' = registry_teardown(registry)
            /\ released' = TRUE
            /\ reg_last' = RegOp("teardown", "none", "ok", NoSampling, registry)
       ELSE /\ UNCHANGED <<registry, released>>
            /\ reg_last' = RegOp("release_nested", "none", "ok", NoSampling, registry)
    /\ UNCHANGED inits
    /\ UNCHANGED gframe

\* init_discrete_space<D>(sampling), called while a guard is held
init_discrete_space(tag, sampling) ==
    /\ guards > 0
    /\ registry' = registry_init(registry, tag, sampling)
    /\ reg_last' = RegOp("init", tag, registry_init_outcome(registry, tag), sampling, registry)
    /\ inits' = [inits EXCEPT ![tag] =
                    IF registry_init_outcome(registry, tag) = "ok" THEN @ + 1 ELSE @]
    /\ UNCHANGED <<guards, released>>
    /\ UNCHANGED gframe

\* discrete_space<D>(): get<D>(), at any time
discrete_space(tag) ==
    /\ reg_last' = RegOp("get", tag, registry_get_outcome(registry, tag), registry[tag], registry)
    /\ UNCHANGED <<guards, released, registry, inits>>
    /\ UNCHANGED gframe

GNext ==
    \/ ScopeGuard
    \/ ScopeGuardRelease
    \/ \E tag \in DDims, sampling \in Samplings : init_discrete_space(tag, sampling)
    \/ \E tag \in DDims : discrete_space(tag)

SpecRegistry == Init /\ [][GNext]_vars

(* ==================== discrete-space registry: claims ================== *)
\* C18: init<D>(sampling) succeeds and inserts the sampling exactly when D was
\* absent; when D was present it fails with AlreadyInitialised and leaves the
\* sampling of D and every other entry as they were; a successful init changes
\* the entry of D only; no tag is ever successfully initialised twice.
C18_InitOnce ==
    /\ reg_last.op = "init" =>
          /\ reg_last.outcome = "ok" <=> reg_last.before[reg_last.tag] = NoSampling
          /\ reg_last.outcome # "ok" =>
                /\ reg_last.outcome = "AlreadyInitialised"
                /\ registry = reg_last.before
          /\ reg_last.outcome = "ok" =>
                /\ registry[reg_last.tag] = reg_last.value
                /\ \A t \in DDims \ {reg_last.tag} : registry[t] = reg_last.before[t]
    /\ \A t \in DDims : inits[t] <= 1

\* a second init of a tag has failed with another tag registered as well
C18_Witness ==
    /\ reg_last.op = "init"
    /\ reg_last.outcome = "AlreadyInitialised"
    /\ reg_last.tag = "DDimX"
    /\ reg_last.value = "sampling_b"
    /\ registry["DDimX"] = "sampling_a"
    /\ registry["DDimY"] = "sampling_b"

\* C19: get<D>() succeeds, returning the registered sampling, exactly when D
\* was initialised under the guard still held; it fails with NotInitialised
\* before any init<D>, before the guard is acquired and after the outer guard
\* is released, when every entry is cleared, also those of tags initialised
\* before; acquiring the guard again while it is held changes nothing.
C19_Lifecycle ==
    /\ reg_last.op = "get" =>
          /\ reg_last.outcome = "ok" <=>
                (inits[reg_last.tag] > 0 /\ guards > 0 /\ ~released)
          /\ reg_last.outcome = "ok" => reg_last.value = registry[reg_last.tag]
          /\ reg_last.outcome # "ok" => reg_last.outcome = "NotInitialised"
    /\ released => \A t \in DDims : registry[t] = NoSampling
    /\ guards = 0 => \A t \in DDims : registry[t] = NoSampling
    /\ reg_last.op \in {"acquire_nested", "release_nested"} =>
          /\ registry = reg_last.before
          /\ ~released

\* get<D>() has failed after the teardown for a tag initialised before
C19_Witness ==
    /\ released
    /\ reg_last.op = "get"
    /\ reg_last.tag = "DDimX"
    /\ reg_last.outcome = "NotInitialised"
    /\ inits["DDimX"] = 1
    /\ inits["DDimY"] = 1


(* ================= DiscreteDomain: remove, take_first, take_last ======= *)
(* The calls of the sources: init_ghosted() splits its ghosted domain with *)
(* take_first, remove and take_last; the time loop of the heat example     *)
(* runs over time_domain.remove_first(1).                                  *)

\* the largest front, extent and count of a call
MaxDomFront == 2
MaxDomExtent == 3
MaxRemove == 4

dframe == <<pvars, hvars, fvars, rvars, bvars, gvars, jvars, tvars_tt, svars>>

\* a call on the receiver returns; the receiver is a const object
DomReturn(op, n1, n2, outcome, result) ==
    /\ dd_last' = DomOp(op, n1, n2, dd_receiver, outcome,
                        IF outcome = "ok" THEN result ELSE <<>>)
    /\ UNCHANGED dd_receiver
    /\ UNCHANGED dframe

\* DiscreteDomain<DDim>(front, extents)
DomConstruct(front, extents) ==
    /\ dd_last.op = "none"
    /\ dd_receiver' = DiscreteDomain(front, extents)
    /\ dd_last' = DomOp("DiscreteDomain", front, extents, dd_receiver, "ok", <<>>)
    /\ UNCHANGED dframe

Constructed_dd == dd_last.op # "none"

\* dom.remove(n_front, n_back)
DomRemove(n1, n2) ==
    /\ Constructed_dd
    /\ DomReturn("remove", n1, n2, remove_outcome(dd_receiver, n1, n2),
                 <<remove(dd_receiver, n1, n2)>>)

\* dom.take_first(n)
DomTakeFirst(n) ==
    /\ Constructed_dd
    /\ n <= dd_receiver.extents
    /\ DomReturn("take_first", n, 0, "ok", <<take_first(dd_receiver, n)>>)

\* dom.take_last(n)
DomTakeLast(n) ==
    /\ Constructed_dd
    /\ n <= dd_receiver.extents
    /\ DomReturn("take_last", 0, n, "ok", <<take_last(dd_receiver, n)>>)

\* variant: the loop runs over the whole time domain
time_loop_all(d) == d

\* for (iter : time_domain.remove_first(DiscreteVector<DDimT>(1)))
time_loop(d) == remove_first(d, 1)

\* the domain of the time loop of the heat example
DomTimeLoop ==
    /\ Constructed_dd
    /\ DomReturn("remove_first", 1, 0, remove_outcome(dd_receiver, 1, 0),
                 <<time_loop(dd_receiver)>>)

\* the three calls of init_ghosted on the ghosted domain (0, n + gb + ga)
DomGhostSplit(n, gb, ga) ==
    /\ Constructed_dd
    /\ dd_receiver = init_ghosted_domain(n, gb, ga)
    /\ DomReturn("init_ghosted", gb, ga, "ok",
                 <<init_ghosted_pre_ghost(n, gb, ga),
                   init_ghosted_main_domain(n, gb, ga),
                   init_ghosted_post_ghost(n, gb, ga)>>)

DNext ==
    \/ \E front \in 0..MaxDomFront, extents \in 0..MaxDomExtent : DomConstruct(front, extents)
    \/ \E n1 \in 0..MaxRemove, n2 \in 0..MaxRemove : DomRemove(n1, n2)
    \/ \E n \in 0..MaxRemove : DomTakeFirst(n)
    \/ \E n \in 0..MaxRemove : DomTakeLast(n)
    \/ DomTimeLoop
    \/ \E n \in 0..MaxDomExtent, gb \in 0..MaxDomExtent, ga \in 0..MaxDomExtent :
          DomGhostSplit(n, gb, ga)

SpecDomain == Init /\ [][DNext]_vars

(* ======================== DiscreteDomain: claims ======================= *)
\* the indices of d without its first n1 and its last n2
Trimmed(d, n1, n2) == {e \in Elems(d) : e >= d.front + n1 /\ e <= back(d) - n2}

\* C20: remove(n_front, n_back) fails with EmptyResult exactly when
\* n_front + n_back exceeds the extent of the domain; otherwise it returns the
\* domain with the front advanced by n_front and the extent reduced by
\* n_front + n_back; take_first(n) and take_last(n) return the first and the
\* last n indices; remove_first(1) drops the first index; the domain the
\* operation is called on is the same afterwards.
C20_Remove ==
    LET d == dd_last.before
        n1 == dd_last.n1
        n2 == dd_last.n2
    IN /\ dd_last.op \in {"remove", "remove_first"} =>
             /\ dd_last.outcome = "EmptyResult" <=> n1 + n2 > d.extents
             /\ dd_last.outcome # "EmptyResult" =>
                   /\ dd_last.outcome = "ok"
                   /\ dd_last.result[1].front = d.front + n1
                   /\ dd_last.result[1].extents = d.extents - n1 - n2
                   /\ Elems(dd_last.result[1]) = Trimmed(d, n1, n2)
             /\ dd_last.outcome = "EmptyResult" => dd_last.result = <<>>
       /\ dd_last.op = "take_first" =>
             Elems(dd_last.result[1]) = {e \in Elems(d) : e < d.front + n1}
       /\ dd_last.op = "take_last" =>
             Elems(dd_last.result[1]) = {e \in Elems(d) : e > back(d) - n2}
       /\ dd_last.op = "init_ghosted" =>
             /\ Elems(dd_last.result[1]) = {e \in Elems(d) : e < d.front + n1}
             /\ Elems(dd_last.result[2]) = Trimmed(d, n1, n2)
             /\ Elems(dd_last.result[3]) = {e \in Elems(d) : e > back(d) - n2}
       /\ dd_last.op \notin {"none", "DiscreteDomain"} => dd_receiver = d

\* remove(2, 2) called on the domain (2, 3) has failed with EmptyResult
C20_Witness ==
    /\ dd_last.op = "remove"
    /\ dd_last.outcome = "EmptyResult"
    /\ dd_last.before = DiscreteDomain(2, 3)
    /\ dd_last.n1 = 2
    /\ dd_last.n2 = 2

(* ======== tests/splines/multiple_batch_domain_2d_spline_builder.cpp ==== *)
(* ComputeEvaluationError fills the values over dom_vals from the values   *)
(* over the two dimensions of interest: every element of dom_vals is       *)
(* projected on the tags DDimI1, DDimI2 and the chunk over the             *)
(* interpolation domain is read there.  The tests order the tags of        *)
(* dom_vals as XY, XYB, XBY and BXY.                                        *)

\* the largest number of points per dimension (ncells is 10 in the test)
MaxCells == 2

jframe == <<pvars, hvars, fvars, rvars, bvars, gvars, dvars, tvars_tt, svars>>

DDimI1 == "DDimGPS<DimX>"
DDimI2 == "DDimGPS<DimY>"
DDimBatch == "DDimBatch"

\* the tag lists DDims... of the four tests
SplineTests ==
    [t \in {"2DXY", "3DXYB", "3DXBY", "3DBXY"} |->
        CASE t = "2DXY" -> <<DDimI1, DDimI2>>
          [] t = "3DXYB" -> <<DDimI1, DDimI2, DDimBatch>>
          [] t = "3DXBY" -> <<DDimI1, DDimBatch, DDimI2>>
          [] t = "3DBXY" -> <<DDimBatch, DDimI1, DDimI2>>]

\* DiscreteElement<Tags...>(e): the uid of every tag is taken from e by tag
DiscreteElement(tags, e) == MCoord(tags, [k \in DOMAIN tags |-> get(e, tags[k])])

\* the elements of a domain of up to three dimensions
DiscreteElements(d) ==
    IF Len(d.tags) <= 2 THEN MCoords(d)
    ELSE {MCoord(d.tags, <<i, j, k>>) : i \in range(d, 1), j \in range(d, 2), k \in range(d, 3)}

\* dom_vals: DiscreteDomain<DDims>(DElem<DDims>(0), DVect<DDims>(n))...
dom_vals(tags, n) ==
    ProductMDomain(tags, [k \in DOMAIN tags |-> 0], [k \in DOMAIN tags |-> n[tags[k]]])

\* dom_interpolation = spline_builder.interpolation_domain()
dom_interpolation(d) == select(d, <<DDimI1, DDimI2>>)

\* evaluator(vals_1d_host): one value per interpolation point, all different
evaluator(coord) == 1000 * get(coord, DDimI1) + get(coord, DDimI2) + 1

\* the buffer of vals_1d after evaluator(vals_1d_host) and the mirror copy
vals_1d_data(d) ==
    LET vals_1d == Block(1, dom_interpolation(d))
    IN [b \in {1} |->
          [o \in 0..(product_from(vals_1d.domain.extents, 1) - 1) |->
              evaluator(CHOOSE c \in MCoords(vals_1d.domain) : offset_of(vals_1d, c) = o)]]

\* an invocation of the kernel: its element, the element it projected and the
\* value it stored in vals(e)
KernelCall(e, proj, value) == [e |-> e, proj |-> proj, value |-> value]

\* variant: the first two uids of e, whatever their tags
kernel_elem_1d_positional(e) == MCoord(<<DDimI1, DDimI2>>, <<e.values[1], e.values[2]>>)

\* DElem<DDimI1, DDimI2>(e)
kernel_elem_1d(e) == DiscreteElement(<<DDimI1, DDimI2>>, e)

\* vals_1d(DElem<DDimI1, DDimI2>(e))
kernel_value(d, e) == read(vals_1d_data(d), Block(1, dom_interpolation(d)), kernel_elem_1d(e))

\* TEST(MultipleBatchDomain2dSpline, 2DXY / 3DXYB / 3DXBY / 3DBXY): dom_vals
SplineTest(test, n) ==
    /\ pj_test = "none"
    /\ pj_test' = test
    /\ pj_dom' = dom_vals(SplineTests[test], n)
    /\ UNCHANGED pj_last
    /\ UNCHANGED jframe

\* one invocation of the kernel of parallel_for_each(exec_space, vals.domain(), ...)
\* vals(e) = vals_1d(DElem<DDimI1, DDimI2>(e))
FillKernel(e) ==
    /\ pj_test # "none"
    /\ e \in DiscreteElements(pj_dom)
    /\ pj_last' = KernelCall(e, kernel_elem_1d(e), kernel_value(pj_dom, e))
    /\ UNCHANGED <<pj_test, pj_dom>>
    /\ UNCHANGED jframe

JNext ==
    \/ \E test \in DOMAIN SplineTests,
          n \in [{DDimI1, DDimI2, DDimBatch} -> 1..MaxCells] : SplineTest(test, n)
    \/ \E e \in DiscreteElements(pj_dom) : FillKernel(e)

SpecProject == Init /\ [][JNext]_vars

(* ====================== projection of elements: claims ================= *)
\* the uid of tag in element e
uid(e, tag) == e.values[CHOOSE k \in DOMAIN e.tags : e.tags[k] = tag]

\* C21: the element DElem<DDimI1, DDimI2>(e) built by the kernel has exactly
\* the tags DDimI1, DDimI2 with the uids e has for these tags, wherever the
\* batch tag stands in the tag order of e; the value the kernel reads with it
\* is the one the evaluator stored for these two uids, and it is the same for
\* every element of dom_vals that differs from e in the batch uid only.
C21_Projection ==
    pj_last.e.tags # <<>> =>
        /\ pj_last.proj.tags = <<DDimI1, DDimI2>>
        /\ pj_last.proj.values = <<uid(pj_last.e, DDimI1), uid(pj_last.e, DDimI2)>>
        /\ pj_last.value = 1000 * uid(pj_last.e, DDimI1) + uid(pj_last.e, DDimI2) + 1
        /\ \A e2 \in DiscreteElements(pj_dom) :
              (uid(e2, DDimI1) = uid(pj_last.e, DDimI1) /\ uid(e2, DDimI2) = uid(pj_last.e, DDimI2))
                  => kernel_value(pj_dom, e2) = pj_last.value

\* the kernel has run in test 3DBXY on an element whose three uids differ in
\* every position from the projected ones
C21_Witness ==
    /\ pj_test = "3DBXY"
    /\ pj_last.e.values = <<1, 0, 1>>
    /\ pj_last.proj.values = <<0, 1>>

(* ========================= include/taggedtuple.h ======================= *)
(* A TaggedTuple<TypeSeq<ElementTypes...>, TypeSeq<Tags...>> is its tag    *)
(* list and the std::tuple m_values.  The members are modelled as they are *)
(* written, with the pack OTags of the converting constructors standing    *)
(* for the tags of the other tuple (the only reading under which           *)
(* other.get<OTags>() names a component of other).                         *)

\* the largest element value and the tags of the tuples
MaxTupleValue == 1
TupleTags == {"A", "B", "C"}

tframe == <<pvars, hvars, fvars, rvars, bvars, gvars, dvars, jvars, svars>>

TaggedTuple(tags, m_values) == [m_values |-> m_values, tags |-> tags]

\* tag_rank_v<QueryTag, TaggedTuple>: RankIn<SingleType<QueryTag>, TypeSeq<Tags...>>::val
tag_rank_v(QueryTag, tuple) == (CHOOSE k \in DOMAIN tuple.tags : tuple.tags[k] = QueryTag) - 1

\* get<QueryTag>(): std::get<tag_rank_v<QueryTag, TaggedTuple>>(m_values)
TaggedTuple_get(tuple, QueryTag) == tuple.m_values[tag_rank_v(QueryTag, tuple) + 1]

\* TaggedTuple(): every element is value-initialised
TaggedTuple_default(tags) == TaggedTuple(tags, [k \in DOMAIN tags |-> 0])

\* TaggedTuple(Params&&... params) : m_values(std::forward<Params>(params)...)
TaggedTuple_params(tags, params) == TaggedTuple(tags, params)

\* TaggedTuple(TaggedTuple<OTags...> const& other) : m_values(other.template get<OTags>()...)
TaggedTuple_convert(tags, other) ==
    TaggedTuple(tags, [k \in DOMAIN other.tags |-> TaggedTuple_get(other, other.tags[k])])

\* operator=(TaggedTuple<OElementTypes..., OTags...> const& other): m_values = other.m_values
TaggedTuple_assign(self, other) == [self EXCEPT !.m_values = other.m_values]

\* the tag lists that hold each tag of a set once
Orders(S) == {s \in [1..Cardinality(S) -> S] : \A i, j \in DOMAIN s : s[i] = s[j] => i = j}

\* TaggedTuple<...> src(params...)
TupleConstruct(tags, params) ==
    /\ tt_op = "none"
    /\ tt_src' = TaggedTuple_params(tags, params)
    /\ tt_op' = "constructed"
    /\ UNCHANGED tt_dst
    /\ UNCHANGED tframe

\* TaggedTuple<...> dst(src), by copy or by move (the elements are integers)
TupleConvert(tags, how) ==
    /\ tt_op = "constructed"
    /\ tt_dst' = TaggedTuple_convert(tags, tt_src)
    /\ tt_op' = how
    /\ UNCHANGED tt_src
    /\ UNCHANGED tframe

\* TaggedTuple<...> dst;
TupleDefault(tags) ==
    /\ tt_op = "constructed"
    /\ tt_dst' = TaggedTuple_default(tags)
    /\ tt_op' = "default"
    /\ UNCHANGED tt_src
    /\ UNCHANGED tframe

\* dst = src, by copy or by move
TupleAssign(how) ==
    /\ tt_op = "default"
    /\ tt_dst' = TaggedTuple_assign(tt_dst, tt_src)
    /\ tt_op' = how
    /\ UNCHANGED tt_src
    /\ UNCHANGED tframe

TNext ==
    \/ \E S \in SUBSET TupleTags : \E tags \in Orders(S) :
          \E params \in [1..Cardinality(S) -> 0..MaxTupleValue] :
              S # {} /\ TupleConstruct(tags, params)
    \/ \E tags \in Orders({tt_src.tags[k] : k \in DOMAIN tt_src.tags}) :
          \E how \in {"copy-constructed", "move-constructed"} : TupleConvert(tags, how)
    \/ \E tags \in Orders({tt_src.tags[k] : k \in DOMAIN tt_src.tags}) : TupleDefault(tags)
    \/ \E how \in {"copy-assigned", "move-assigned"} : TupleAssign(how)

SpecTuple == Init /\ [][TNext]_vars

(* ========================== TaggedTuple: claims ======================== *)
Converted == tt_op \in {"copy-constructed", "move-constructed", "copy-assigned", "move-assigned"}

Offsets(span) == {offset_of(span, c) : c \in MCoords(span.domain)}

\* C23: the block allocated over a domain with front (f1, f2) and extents
\* (n1, n2), zero or not, maps the elements of the domain one to one onto the
\* offsets 0 .. n1*n2 - 1 of its buffer: (i, j) is at (i - f1) * n2 + (j - f2)
\* (i - f1 for one dimension), inside the buffer, and two different elements
\* never share an offset; block.domain() is the domain given; the assertions
\* of the view and domain tests hold.
C23_Addressing ==
    bk_pc # "start" =>
        LET d == block.domain
            n == product_from(d.extents, 1)
        IN /\ d = bk_dom
           /\ DOMAIN bk_data[block.buffer] = 0..(n - 1)
           /\ Offsets(block) = 0..(n - 1)
           /\ \A c1, c2 \in MCoords(d) : offset_of(block, c1) = offset_of(block, c2) => c1 = c2
           /\ \A c \in MCoords(d) :
                 offset_of(block, c) =
                    IF Len(d.tags) = 1 THEN c.values[1] - d.front[1]
                    ELSE (c.values[1] - d.front[1]) * d.extents[2] + (c.values[2] - d.front[2])
           /\ BlockDone({"NonZeroDBlockXVxTest.view", "DBlockXTest.domain"}) => bk_ok

\* the view test has run over a domain with a non-zero front and different
\* extents on X and Vx
C23_Witness ==
    /\ BlockDone({"NonZeroDBlockXVxTest.view"})
    /\ bk_dom.front = <<nonzero_front, nonzero_front>>
    /\ bk_dom.extents = <<2, 3>>
    /\ bk_ok

(* ================= heat example: reads of the stencil ================== *)
\* the cells of last_temp the kernel reads at element <<ix, iy>>
StencilCells(e) ==
    {e, <<e[1] + 1, e[2]>>, <<e[1] - 1, e[2]>>, <<e[1], e[2] + 1>>, <<e[1], e[2] - 1>>}

\* the cells that are ghost along X and along Y
Corners ==
    (Elems(x_pre_ghost) \cup Elems(x_post_ghost)) \X (Elems(y_pre_ghost) \cup Elems(y_post_ghost))

Allocated == pc \notin {"start", "build_x", "ghost_y", "build_y", "time_domain", "allocate"}

\* the cells a boundary copy reads, for the copy about to run
BoundaryReads ==
    CASE pc = "bc_x_pre" -> Elems(x_pre_mirror) \X Elems(y_domain)
      [] pc = "bc_x_post" -> Elems(x_post_mirror) \X Elems(y_domain)
      [] pc = "bc_y_pre" -> Elems(x_domain) \X Elems(y_pre_mirror)
      [] pc = "bc_y_post" -> Elems(x_domain) \X Elems(y_post_mirror)
      [] OTHER -> {}

\* C24: in every time iteration each cell of ghosted_last_temp the stencil
\* reads (the element and its four neighbours) lies inside the ghosted domain
\* and holds a value written before; so does each cell a boundary copy
\* reads; every cell next_temp receives is computed from written cells only;
\* the corner ghost cells are never written and never read.
C24_ReadsWritten ==
    Allocated =>
        LET last == buffers[ghosted_last_temp]
            next == buffers[ghosted_next_temp]
            interior == Elems2(x_domain, y_domain)
        IN /\ pc = "scheme" =>
                 \A e \in interior : \A c \in StencilCells(e) :
                     c \in DOMAIN last /\ last[c] # Undef /\ c \notin Corners
           /\ \A c \in BoundaryReads : c \in DOMAIN last /\ last[c] # Undef /\ c \notin Corners
           /\ pc \in {"output", "swap"} => \A e \in interior : next[e] # Undef
           /\ \A c \in Corners : last[c] = Undef /\ next[c] = Undef

\* the stencil is about to run in the second iteration, on the buffer the
\* first iteration wrote, over a mesh with corners
C24_Witness ==
    /\ pc = "scheme"
    /\ iter = 2
    /\ ghosted_last_temp = 2
    /\ Corners # {}

(* ========== heat example: the kernel of the numerical scheme =========== *)
(* The time loop of main() with the parallel_for_each of the numerical     *)
(* scheme run one statement of one invocation at a time, in any order, on  *)
(* a mesh of StencilPoints x 2 unperturbed points with one              *)
(* hot point.                                                               *)
StencilPoints == 2
StencilIters == 2

sframe == <<pvars, hvars, fvars, rvars, bvars, gvars, dvars, jvars, tvars_tt>>

\* the point tables of the two dimensions (two points along y) and the domains
sk_vect_x == generate_random_vector(StencilPoints, [i \in 1..StencilPoints |-> 0])
sk_vect_y == generate_random_vector(Len(<<0, 0>>), <<0, 0>>)
sk_table(vect) ==
    nu_points(vect, periodic_extrapolation_left(ghost_width, vect),
              periodic_extrapolation_right(ghost_width, vect))
sk_points_x == sk_table(sk_vect_x)
sk_points_y == sk_table(sk_vect_y)
sk_domain(vect) == nu_main_domain(Len(vect), ghost_width, ghost_width)
sk_ghosted(vect) == nu_ghosted_domain(Len(vect), ghost_width, ghost_width)
sk_pre_ghost(vect) == nu_pre_ghost(Len(vect), ghost_width, ghost_width)
sk_post_ghost(vect) == nu_post_ghost(Len(vect), ghost_width, ghost_width)
sk_pre_mirror(vect) == pre_mirror(sk_pre_ghost(vect), sk_domain(vect))
sk_post_mirror(vect) == post_mirror(sk_post_ghost(vect), sk_domain(vect))

\* next_temp.domain()
sk_interior == Elems2(sk_domain(sk_vect_x), sk_domain(sk_vect_y))

\* the two chunks are allocated and ghosted_initial_temp is filled: 9.999 at
\* the point inside the disc, 0 at the others
StencilFill ==
    /\ sk_pc = "start"
    /\ sk_bufs' = [b \in {sk_last, sk_next} |->
          [e \in Elems2(sk_ghosted(sk_vect_x), sk_ghosted(sk_vect_y)) |->
              IF b = sk_last /\ e \in sk_interior
              THEN (IF e = <<sk_domain(sk_vect_x).front, sk_domain(sk_vect_y).front>>
                    THEN 9999 ELSE 0)
              ELSE Undef]]
    /\ sk_phase' = [e \in sk_interior |-> 3]
    /\ sk_iter' = 1
    /\ sk_pc' = "bc"
    /\ UNCHANGED <<sk_last, sk_next>>
    /\ UNCHANGED sframe

\* the four copy loops of the boundary conditions, then the kernel is launched
StencilBoundary ==
    /\ sk_pc = "bc"
    /\ sk_bufs' = [sk_bufs EXCEPT ![sk_last] =
          bc_y(bc_y(bc_x(bc_x(@, sk_pre_ghost(sk_vect_x), sk_pre_mirror(sk_vect_x),
                              sk_domain(sk_vect_y), 0),
                         sk_post_ghost(sk_vect_x), sk_post_mirror(sk_vect_x),
                         sk_domain(sk_vect_y), 0),
                    sk_pre_ghost(sk_vect_y), sk_pre_mirror(sk_vect_y),
                    sk_domain(sk_vect_x), 0),
               sk_post_ghost(sk_vect_y), sk_post_mirror(sk_vect_y),
               sk_domain(sk_vect_x), 0)]
    /\ sk_phase' = [e \in sk_interior |-> 0]
    /\ sk_pc' = "kernel"
    /\ UNCHANGED <<sk_iter, sk_last, sk_next>>
    /\ UNCHANGED sframe

\* variant: next_temp is a view of ghosted_last_temp (the update in place)
next_temp_in_place == sk_last

\* ChunkSpan const next_temp(ghosted_next_temp[...]): the buffer it views
next_temp == sk_next

\* ChunkSpan const last_temp(ghosted_last_temp.span_cview()): the buffer it views
last_temp_view == sk_last

\* the cells statement k of the invocation at e reads, as <<buffer, cell>>:
\* 1: next_temp(ix, iy) = last_temp(ix, iy)
\* 2: next_temp(ix, iy) += ... last_temp(ix + 1, iy) ... last_temp(ix, iy) ... last_temp(ix - 1, iy)
\* 3: next_temp(ix, iy) += ... last_temp(ix, iy + 1) ... last_temp(ix, iy) ... last_temp(ix, iy - 1)
kernel_reads(e, k) ==
    CASE k = 1 -> {<<last_temp_view, e>>}
      [] k = 2 -> {<<next_temp, e>>, <<last_temp_view, <<e[1] + 1, e[2]>>>>,
                   <<last_temp_view, e>>, <<last_temp_view, <<e[1] - 1, e[2]>>>>}
      [] k = 3 -> {<<next_temp, e>>, <<last_temp_view, <<e[1], e[2] + 1>>>>,
                   <<last_temp_view, e>>, <<last_temp_view, <<e[1], e[2] - 1>>>>}

\* the cell statement k of the invocation at e writes
kernel_writes(e, k) == {<<next_temp, e>>}

\* the values of the cells a statement reads
Loaded(e, k) == [a \in kernel_reads(e, k) |-> sk_bufs[a[1]][a[2]]]

\* a + b for values that may come from unwritten cells
Plus(loads, a, b) == IF Undef \in {loads[x] : x \in DOMAIN loads} THEN Undef ELSE a + b

\* the value statement k of the invocation at e stores
kernel_store(e_k) ==
    LET e == e_k[1]
        k == e_k[2]
        R == Loaded(e, k)
    IN CASE k = 1 -> R[<<last_temp_view, e>>]
         [] k = 2 ->
              Plus(R, R[<<next_temp, e>>],
                   diffusion(kx_dt, nu_distance_at_left(sk_points_x, e[1]),
                             nu_distance_at_right(sk_points_x, e[1]),
                             R[<<last_temp_view, <<e[1] - 1, e[2]>>>>],
                             R[<<last_temp_view, e>>],
                             R[<<last_temp_view, <<e[1] + 1, e[2]>>>>]))
         [] k = 3 ->
              Plus(R, R[<<next_temp, e>>],
                   diffusion(ky_dt, nu_distance_at_left(sk_points_y, e[2]),
                             nu_distance_at_right(sk_points_y, e[2]),
                             R[<<last_temp_view, <<e[1], e[2] - 1>>>>],
                             R[<<last_temp_view, e>>],
                             R[<<last_temp_view, <<e[1], e[2] + 1>>>>]))

\* the invocation at e runs its next statement
KernelStatement(e) ==
    /\ sk_pc = "kernel"
    /\ e \in sk_interior
    /\ sk_phase[e] < 3
    /\ LET k == sk_phase[e] + 1
       IN /\ sk_bufs' = [sk_bufs EXCEPT ![next_temp][e] = kernel_store(<<e, k>>)]
          /\ sk_phase' = [sk_phase EXCEPT ![e] = k]
    /\ UNCHANGED <<sk_pc, sk_iter, sk_last, sk_next>>
    /\ UNCHANGED sframe

\* parallel_for_each returns when every invocation has returned
StencilJoin ==
    /\ sk_pc = "kernel"
    /\ \A e \in sk_interior : sk_phase[e] = 3
    /\ sk_pc' = "swap"
    /\ UNCHANGED <<sk_iter, sk_bufs, sk_last, sk_next, sk_phase>>
    /\ UNCHANGED sframe

\* std::swap(ghosted_last_temp, ghosted_next_temp) and the next iteration
StencilSwap ==
    /\ sk_pc = "swap"
    /\ sk_last' = sk_next
    /\ sk_next' = sk_last
    /\ IF sk_iter < StencilIters
       THEN sk_iter' = sk_iter + 1 /\ sk_pc' = "bc"
       ELSE sk_iter' = sk_iter /\ sk_pc' = "done"
    /\ UNCHANGED <<sk_bufs, sk_phase>>
    /\ UNCHANGED sframe

SNext ==
    \/ StencilFill
    \/ StencilBoundary
    \/ \E e \in sk_interior : KernelStatement(e)
    \/ StencilJoin
    \/ StencilSwap

SpecStencil == Init /\ [][SNext]_vars

(* ================== heat example: the kernel is race-free ============== *)
\* the accesses the invocation at e has made so far
ReadsSoFar(e) == UNION {kernel_reads(e, k) : k \in 1..sk_phase[e]}
WritesSoFar(e) == UNION {kernel_writes(e, k) : k \in 1..sk_phase[e]}

\* what the kernel stores at e when it runs alone on the buffer last
Serial(last, e) ==
    LET t(c) == last[c]
    IN t(e)
       + diffusion(kx_dt, nu_distance_at_left(sk_points_x, e[1]),
                   nu_distance_at_right(sk_points_x, e[1]),
                   t(<<e[1] - 1, e[2]>>), t(e), t(<<e[1] + 1, e[2]>>))
       + diffusion(ky_dt, nu_distance_at_left(sk_points_y, e[2]),
                   nu_distance_at_right(sk_points_y, e[2]),
                   t(<<e[1], e[2] - 1>>), t(e), t(<<e[1], e[2] + 1>>))

\* C25: whatever the order in which the statements of the invocations run, in
\* every iteration (before and after the swap) next_temp and last_temp view
\* two different buffers, every invocation writes the cell of next_temp at
\* its own element only, no invocation reads or writes a cell another
\* invocation writes, and when the loop returns next_temp holds at every
\* element the value the kernel computes alone from last_temp.
C25_RaceFree ==
    sk_pc \in {"kernel", "swap"} =>
        /\ last_temp_view # next_temp
        /\ \A e \in sk_interior :
              /\ WritesSoFar(e) \subseteq {<<sk_next, e>>}
              /\ \A e2 \in sk_interior \ {e} :
                    WritesSoFar(e) \cap (ReadsSoFar(e2) \cup WritesSoFar(e2)) = {}
        /\ sk_pc = "swap" =>
              \A e \in sk_interior :
                  /\ sk_bufs[sk_next][e] # Undef
                  /\ sk_bufs[sk_next][e] = Serial(sk_bufs[sk_last], e)

\* in the second iteration, after the swap, one invocation has finished while
\* a neighbour has not started, and the values differ from cell to cell
C25_Witness ==
    /\ sk_pc = "kernel"
    /\ sk_iter = 2
    /\ sk_next = 1
    /\ sk_phase[<<1, 1>>] = 3
    /\ sk_phase[<<2, 1>>] = 0
    /\ sk_bufs[sk_last][<<1, 1>>] # sk_bufs[sk_last][<<2, 1>>]


(* =================== heat example: the output schedule ================= *)
\* the positions of main() at which the initial display has been made
AfterInitialDisplay ==
    {"loop", "bc_x_pre", "bc_x_post", "bc_y_pre", "bc_y_post", "scheme", "output",
     "swap", "final_output", "done"}

\* the last iteration whose output statement has run
OutputDone == IF pc \in {"loop", "swap", "final_output", "done"} THEN iter ELSE iter - 1

\* the labels of the displays the loop has made up to iteration k, the
\* initial display included
LoopLabels(k) ==
    [i \in 1..(1 + (k - time_domain.front) \div t_output_period) |->
        time_domain.front + (i - 1) * t_output_period]

\* the temperatures of (x_domain, y_domain) after k iterations, computed from
\* the initial fill by the boundary copies and the numerical scheme
RECURSIVE TempAt(_)
TempAt(k) ==
    IF k = time_domain.front
    THEN [e \in Elems2(x_domain, y_domain) |->
             initial_temp(nu_coordinate(x_points, e[1]), nu_coordinate(y_points, e[2]))]
    ELSE LET prev == TempAt(k - 1)
             ghosted == [e \in Elems2(ghosted_x_domain, ghosted_y_domain) |->
                            IF e \in DOMAIN prev THEN prev[e] ELSE Undef]
             copied == bc_y(bc_y(bc_x(bc_x(ghosted, x_pre_ghost, x_pre_mirror, y_domain, 0),
                                      x_post_ghost, x_post_mirror, y_domain, 0),
                                 y_pre_ghost, y_pre_mirror, x_domain, 0),
                            y_post_ghost, y_post_mirror, x_domain, 0)
         IN [e \in Elems2(x_domain, y_domain) |-> scheme(copied, e[1], e[2])]

\* C26: no display is made before the initial one; the loop displays at
\* iteration iter exactly when iter - last_output_iter >= t_output_period and
\* then sets last_output_iter = iter, so the displays of the loop are labelled
\* time_domain.front, + t_output_period, + 2 t_output_period, ...; after the
\* loop one more display, labelled time_domain.back, is made exactly when
\* last_output_iter < time_domain.back; so the state at time_domain.back is
\* displayed exactly once, and every display shows the temperatures computed
\* for the iteration of its label.
C26_OutputSchedule ==
    /\ pc \notin AfterInitialDisplay => displayed = <<>>
    /\ pc \in AfterInitialDisplay =>
          LET labels == [i \in DOMAIN displayed |-> displayed[i].label]
              loop == LoopLabels(OutputDone)
          IN /\ last_output_iter = loop[Len(loop)]
             /\ pc # "done" => labels = loop
             /\ pc = "done" =>
                   /\ labels = IF last_output_iter < back(time_domain)
                               THEN Append(loop, back(time_domain))
                               ELSE loop
                   /\ Cardinality({i \in DOMAIN labels : labels[i] = back(time_domain)}) = 1
             /\ \A i \in DOMAIN displayed :
                   /\ displayed[i].data = TempAt(displayed[i].label)
                   /\ \A e \in DOMAIN displayed[i].data : displayed[i].data[e] # Undef

\* a run has ended with a display made in the loop followed by the final
\* display, and the three displays show different temperatures
C26_Witness ==
    /\ pc = "done"
    /\ Len(displayed) = 3
    /\ last_output_iter < back(time_domain)
    /\ displayed[3].label = back(time_domain)
    /\ displayed[1].data # displayed[2].data
    /\ displayed[2].data # displayed[3].data

\* a run has ended on an iteration the loop displayed: no final display
C26_WitnessNoFinal ==
    /\ pc = "done"
    /\ last_output_iter = back(time_domain)
    /\ Len(displayed) >= 2


(* ============ heat example: the indices of the distance calls ========== *)
\* variant: the reductions of the CFL condition run over the ghosted domains
distance_calls_ghosted ==
    {<<x_points, ix>> : ix \in Elems(ghosted_x_domain)}
        \cup {<<y_points, iy>> : iy \in Elems(ghosted_y_domain)}
        \cup {<<x_points, ixy[1]>> : ixy \in Elems2(x_domain, y_domain)}
        \cup {<<y_points, ixy[2]>> : ixy \in Elems2(x_domain, y_domain)}

\* the calls distance_at_left(i) and distance_at_right(i) main() makes, each as
\* <<point table of the dimension, i>>: the transform_reduce over x_domain,
\* the one over y_domain, and the kernel over (x_domain, y_domain)
distance_calls ==
    {<<x_points, ix>> : ix \in Elems(x_domain)}
        \cup {<<y_points, iy>> : iy \in Elems(y_domain)}
        \cup {<<x_points, ixy[1]>> : ixy \in Elems2(x_domain, y_domain)}
        \cup {<<y_points, ixy[2]>> : ixy \in Elems2(x_domain, y_domain)}

\* the positions of main() at which both samplings and their domains are built
AfterBuild == {"time_domain", "allocate", "fill", "initial_display"} \cup AfterInitialDisplay

\* C27: every distance_at_left(i) and distance_at_right(i) of the heat example
\* is called at an index with both neighbours in the point table of its
\* dimension: 1 <= i <= N - 2 for the N stored points, and both distances are
\* those between stored neighbours.
C27_DistanceIndices ==
    pc \in AfterBuild =>
        \A dc \in distance_calls :
            LET points == dc[1]
                i == dc[2]
            IN /\ 1 <= i
               /\ i <= Len(points) - 2
               /\ nu_distance_at_left(points, i)
                     = nu_coordinate(points, i) - nu_coordinate(points, i - 1)
               /\ nu_distance_at_right(points, i)
                     = nu_coordinate(points, i + 1) - nu_coordinate(points, i)

\* the kernel is about to run and the calls reach the first and the last
\* index that have both neighbours
C27_Witness ==
    /\ pc = "scheme"
    /\ \E dc \in distance_calls : dc[1] = x_points /\ dc[2] = 1
    /\ \E dc \in distance_calls : dc[1] = x_points /\ dc[2] = Len(x_points) - 2


(* ============ heat example: ghost points and their mirrors ============= *)
\* the ghost and mirror domains of the two dimensions, each with the point
\* table and the main points of its dimension
GhostMirrorPairs ==
    [pre |-> {<<x_points, x_domain_vect, x_pre_ghost, x_pre_mirror>>,
              <<y_points, y_domain_vect, y_pre_ghost, y_pre_mirror>>},
     post |-> {<<x_points, x_domain_vect, x_post_ghost, x_post_mirror>>,
               <<y_points, y_domain_vect, y_post_ghost, y_post_mirror>>}]

\* C28: the coordinate of each pre-ghost index equals the coordinate of the
\* point at the corresponding pre_mirror index minus the period, and the
\* coordinate of each post-ghost index equals the coordinate of the point at
\* the corresponding post_mirror index plus the period, the period being
\* points.back() - points.front() of the main points.
C28_GhostMirror ==
    pc \in AfterBuild =>
        /\ \A gm \in GhostMirrorPairs.pre : \A k \in 0..(gm[3].extents - 1) :
              nu_coordinate(gm[1], gm[3].front + k)
                  = nu_coordinate(gm[1], gm[4].front + k) - Period(gm[2])
        /\ \A gm \in GhostMirrorPairs.post : \A k \in 0..(gm[3].extents - 1) :
              nu_coordinate(gm[1], gm[3].front + k)
                  = nu_coordinate(gm[1], gm[4].front + k) + Period(gm[2])


(* ================ periodic sampling: rmin, rmax, rlength =============== *)
\* C29: for a periodic sampling and a non-empty domain d, rmin(d) is the
\* smallest and rmax(d) the largest coordinate of the domain, rmin(d) <=
\* coordinate(e) <= rmax(d) for every e in d, and rlength(d) >= 0.
C29_Extent ==
    /\ query.fn = "rmin" =>
          \A e \in Elems(query.dom) : \A c \in Impl_coordinate(disc, e) : RatLe(query.res, c)
    /\ query.fn = "rmax" =>
          \A e \in Elems(query.dom) : \A c \in Impl_coordinate(disc, e) : RatLe(c, query.res)
    /\ query.fn = "rlength" => RatLe(RatOfInt(0), query.res)


(* ============= periodic sampling: the integer arithmetic =============== *)
\* C30: for every index uid of std::size_t and every n_period >= 1 the
\* unsigned sum uid + n_period / 2 does not wrap, the casts of
\* (uid + n_period / 2) % n_period and of n_period / 2 to int do not change
\* their values, and coordinate returns
\* origin + (((uid + floor(P / 2)) mod P) - floor(P / 2)) * step.
C30_ExactIntegers ==
    query.fn = "coordinate" =>
        LET P == disc.n_period
            icoord == query.arg
            half == P \div 2
        IN /\ SizeAdd(icoord, half) = icoord + half
           /\ ToInt(SizeAdd(icoord, half) % P) = SizeAdd(icoord, half) % P
           /\ ToInt(half) = half
           /\ query.res = AtOffset(disc, ((icoord + half) % P) - half)

====
